---- MODULE Spec2Model ----
(***************************************************************************)
(* Workspace seeder (scripts/seed_workspace.py) as a state machine: the    *)
(* module-level start-up, main(), the four creation phases and the mapping *)
(* file, one action per loop iteration or network call, with the remote    *)
(* API as the environment.                                                 *)
(***************************************************************************)
EXTENDS Integers, Sequences, FiniteSets, Bags, TLC

(***************************************************************************)
(* Bounds of the model.                                                    *)
(***************************************************************************)
\* Abnormal responses (409, other status, exception, body without "data")
\* the remote may give in one faulty run.
MaxFail == 1

\* Runs of the whole job against one well-behaved workspace.
MaxRuns == 2

(***************************************************************************)
(* Program constants.                                                      *)
(***************************************************************************)
\* RATE_LIMIT_DELAY = 0.15 seconds, in hundredths of a second.
RATE_LIMIT_DELAY == 15

(***************************************************************************)
(* The bundled reference data.  A company keeps the fields the script      *)
(* reads for control flow and keys: name_has_Tech is ("Tech" in name), ceo *)
(* and exec2 are the e-mail addresses create_people builds                 *)
(* (first.lower().replace(' ','') + "." + last... + "@" + domain).  A deal *)
(* keeps close_date as the number yyyymmdd, whose order is the order of    *)
(* the ISO strings the script compares; company_idx is 0-based as in the   *)
(* source.                                                                 *)
(***************************************************************************)
COMPANY_CUSTOM_ATTRIBUTES ==
  << "industry",
     "employee_count",
     "annual_revenue",
     "founded_year",
     "headquarters",
     "linkedin_url",
     "tech_stack",
     "lead_source",
     "icp_score",
     "last_contacted",
     "account_tier",
     "funding_stage",
     "contract_status",
     "primary_use_case",
     "renewal_date" >>

DEAL_CUSTOM_ATTRIBUTES ==
  << "deal_lead_source",
     "next_step",
     "champion",
     "competitor",
     "use_case",
     "contract_length_months",
     "security_review_status",
     "probability",
     "loss_reason",
     "onboarding_date",
     "close_date" >>

COMPANIES ==
  << [name |-> "Apple Inc.", domain |-> "apple.com", industry |-> "Technology",
      employee_count |-> 166000, name_has_Tech |-> FALSE,
      ceo |-> "tim.cook@apple.com", exec2 |-> "kevan.parekh@apple.com"],
     [name |-> "Microsoft Corporation", domain |-> "microsoft.com", industry |-> "Technology",
      employee_count |-> 228000, name_has_Tech |-> FALSE,
      ceo |-> "satya.nadella@microsoft.com", exec2 |-> "amy.hood@microsoft.com"],
     [name |-> "Alphabet Inc.", domain |-> "abc.xyz", industry |-> "Technology",
      employee_count |-> 183000, name_has_Tech |-> FALSE,
      ceo |-> "sundar.pichai@abc.xyz", exec2 |-> "anat.ashkenazi@abc.xyz"],
     [name |-> "Meta Platforms, Inc.", domain |-> "meta.com", industry |-> "Technology",
      employee_count |-> 74000, name_has_Tech |-> FALSE,
      ceo |-> "mark.zuckerberg@meta.com", exec2 |-> "susan.li@meta.com"],
     [name |-> "NVIDIA Corporation", domain |-> "nvidia.com", industry |-> "Technology",
      employee_count |-> 36000, name_has_Tech |-> FALSE,
      ceo |-> "jensen.huang@nvidia.com", exec2 |-> "colette.kress@nvidia.com"],
     [name |-> "Broadcom Inc.", domain |-> "broadcom.com", industry |-> "Technology",
      employee_count |-> 40000, name_has_Tech |-> FALSE,
      ceo |-> "hock.tan@broadcom.com", exec2 |-> "kirsten.spears@broadcom.com"],
     [name |-> "Oracle Corporation", domain |-> "oracle.com", industry |-> "Technology",
      employee_count |-> 162000, name_has_Tech |-> FALSE,
      ceo |-> "safra.catz@oracle.com", exec2 |-> "larry.ellison@oracle.com"],
     [name |-> "Salesforce, Inc.", domain |-> "salesforce.com", industry |-> "Technology",
      employee_count |-> 76000, name_has_Tech |-> FALSE,
      ceo |-> "marc.benioff@salesforce.com", exec2 |-> "robin.washington@salesforce.com"],
     [name |-> "Cisco Systems, Inc.", domain |-> "cisco.com", industry |-> "Technology",
      employee_count |-> 86000, name_has_Tech |-> FALSE,
      ceo |-> "chuck.robbins@cisco.com", exec2 |-> "mark.patterson@cisco.com"],
     [name |-> "International Business Machines Corporation", domain |-> "ibm.com", industry |-> "Technology",
      employee_count |-> 282000, name_has_Tech |-> FALSE,
      ceo |-> "arvind.krishna@ibm.com", exec2 |-> "james.kavanaugh@ibm.com"],
     [name |-> "Intel Corporation", domain |-> "intel.com", industry |-> "Technology",
      employee_count |-> 109000, name_has_Tech |-> FALSE,
      ceo |-> "lip-bu.tan@intel.com", exec2 |-> "david.zinsner@intel.com"],
     [name |-> "Qualcomm Incorporated", domain |-> "qualcomm.com", industry |-> "Technology",
      employee_count |-> 49000, name_has_Tech |-> FALSE,
      ceo |-> "cristiano.amon@qualcomm.com", exec2 |-> "akash.palkhiwala@qualcomm.com"],
     [name |-> "Adobe Inc.", domain |-> "adobe.com", industry |-> "Technology",
      employee_count |-> 30000, name_has_Tech |-> FALSE,
      ceo |-> "shantanu.narayen@adobe.com", exec2 |-> "dan.durn@adobe.com"],
     [name |-> "Netflix, Inc.", domain |-> "netflix.com", industry |-> "Technology",
      employee_count |-> 14000, name_has_Tech |-> FALSE,
      ceo |-> "ted.sarandos@netflix.com", exec2 |-> "spencer.neumann@netflix.com"],
     [name |-> "Advanced Micro Devices, Inc.", domain |-> "amd.com", industry |-> "Technology",
      employee_count |-> 26000, name_has_Tech |-> FALSE,
      ceo |-> "lisa.su@amd.com", exec2 |-> "jean.hu@amd.com"],
     [name |-> "DXC Technology Company", domain |-> "dxc.com", industry |-> "Technology",
      employee_count |-> 120000, name_has_Tech |-> TRUE,
      ceo |-> "raul.fernandez@dxc.com", exec2 |-> "rob.delbene@dxc.com"],
     [name |-> "Roper Technologies, Inc.", domain |-> "ropertech.com", industry |-> "Technology",
      employee_count |-> 18000, name_has_Tech |-> TRUE,
      ceo |-> "neil.hunn@ropertech.com", exec2 |-> "jason.conley@ropertech.com"],
     [name |-> "Agilent Technologies, Inc.", domain |-> "agilent.com", industry |-> "Technology",
      employee_count |-> 18000, name_has_Tech |-> TRUE,
      ceo |-> "padraig.mcdonnell@agilent.com", exec2 |-> "adam.elinoff@agilent.com"],
     [name |-> "Zebra Technologies Corporation", domain |-> "zebra.com", industry |-> "Technology",
      employee_count |-> 10000, name_has_Tech |-> TRUE,
      ceo |-> "bill.burns@zebra.com", exec2 |-> "nathan.winters@zebra.com"],
     [name |-> "Lumen Technologies, Inc.", domain |-> "lumen.com", industry |-> "Technology",
      employee_count |-> 24000, name_has_Tech |-> TRUE,
      ceo |-> "kate.johnson@lumen.com", exec2 |-> "chris.stansbury@lumen.com"],
     [name |-> "Seagate Technology Holdings plc", domain |-> "seagate.com", industry |-> "Technology",
      employee_count |-> 30000, name_has_Tech |-> TRUE,
      ceo |-> "dave.mosley@seagate.com", exec2 |-> "gianluca.romano@seagate.com"],
     [name |-> "Microchip Technology Incorporated", domain |-> "microchip.com", industry |-> "Technology",
      employee_count |-> 19000, name_has_Tech |-> TRUE,
      ceo |-> "steve.sanghi@microchip.com", exec2 |-> "eric.bjornholt@microchip.com"],
     [name |-> "Marvell Technology, Inc.", domain |-> "marvell.com", industry |-> "Technology",
      employee_count |-> 7000, name_has_Tech |-> TRUE,
      ceo |-> "matt.murphy@marvell.com", exec2 |-> "willem.meintjes@marvell.com"],
     [name |-> "UnitedHealth Group Incorporated", domain |-> "unitedhealthgroup.com", industry |-> "Healthcare",
      employee_count |-> 440000, name_has_Tech |-> FALSE,
      ceo |-> "stephen.hemsley@unitedhealthgroup.com", exec2 |-> "wayne.deveydt@unitedhealthgroup.com"],
     [name |-> "Johnson & Johnson", domain |-> "jnj.com", industry |-> "Healthcare",
      employee_count |-> 138000, name_has_Tech |-> FALSE,
      ceo |-> "joaquin.duato@jnj.com", exec2 |-> "joseph.wolk@jnj.com"],
     [name |-> "Pfizer Inc.", domain |-> "pfizer.com", industry |-> "Healthcare",
      employee_count |-> 83000, name_has_Tech |-> FALSE,
      ceo |-> "albert.bourla@pfizer.com", exec2 |-> "dave.denton@pfizer.com"],
     [name |-> "Elevance Health, Inc.", domain |-> "elevancehealth.com", industry |-> "Healthcare",
      employee_count |-> 100000, name_has_Tech |-> FALSE,
      ceo |-> "gail.boudreaux@elevancehealth.com", exec2 |-> "mark.kaye@elevancehealth.com"],
     [name |-> "CVS Health Corporation", domain |-> "cvshealth.com", industry |-> "Healthcare",
      employee_count |-> 300000, name_has_Tech |-> FALSE,
      ceo |-> "david.joyner@cvshealth.com", exec2 |-> "brian.newman@cvshealth.com"],
     [name |-> "Abbott Laboratories", domain |-> "abbott.com", industry |-> "Healthcare",
      employee_count |-> 114000, name_has_Tech |-> FALSE,
      ceo |-> "robert.ford@abbott.com", exec2 |-> "philip.boudreau@abbott.com"],
     [name |-> "JPMorgan Chase & Co.", domain |-> "jpmorganchase.com", industry |-> "Finance",
      employee_count |-> 317000, name_has_Tech |-> FALSE,
      ceo |-> "jamie.dimon@jpmorganchase.com", exec2 |-> "jeremy.barnum@jpmorganchase.com"],
     [name |-> "Goldman Sachs Group, Inc.", domain |-> "goldmansachs.com", industry |-> "Finance",
      employee_count |-> 46000, name_has_Tech |-> FALSE,
      ceo |-> "david.solomon@goldmansachs.com", exec2 |-> "denis.coleman@goldmansachs.com"],
     [name |-> "Morgan Stanley", domain |-> "morganstanley.com", industry |-> "Finance",
      employee_count |-> 80000, name_has_Tech |-> FALSE,
      ceo |-> "ted.pick@morganstanley.com", exec2 |-> "sharon.yeshaya@morganstanley.com"],
     [name |-> "Bank of America Corporation", domain |-> "bankofamerica.com", industry |-> "Finance",
      employee_count |-> 213000, name_has_Tech |-> FALSE,
      ceo |-> "brian.moynihan@bankofamerica.com", exec2 |-> "alastair.borthwick@bankofamerica.com"],
     [name |-> "Visa Inc.", domain |-> "visa.com", industry |-> "Finance",
      employee_count |-> 32000, name_has_Tech |-> FALSE,
      ceo |-> "ryan.mcinerney@visa.com", exec2 |-> "chris.suh@visa.com"],
     [name |-> "Berkshire Hathaway Inc.", domain |-> "berkshirehathaway.com", industry |-> "Finance",
      employee_count |-> 392000, name_has_Tech |-> FALSE,
      ceo |-> "greg.abel@berkshirehathaway.com", exec2 |-> "marc.hamburg@berkshirehathaway.com"],
     [name |-> "Exxon Mobil Corporation", domain |-> "exxonmobil.com", industry |-> "Energy",
      employee_count |-> 62000, name_has_Tech |-> FALSE,
      ceo |-> "darren.woods@exxonmobil.com", exec2 |-> "kathryn.mikells@exxonmobil.com"],
     [name |-> "Chevron Corporation", domain |-> "chevron.com", industry |-> "Energy",
      employee_count |-> 46000, name_has_Tech |-> FALSE,
      ceo |-> "mike.wirth@chevron.com", exec2 |-> "eimear.bonner@chevron.com"],
     [name |-> "ConocoPhillips", domain |-> "conocophillips.com", industry |-> "Energy",
      employee_count |-> 12000, name_has_Tech |-> FALSE,
      ceo |-> "ryan.lance@conocophillips.com", exec2 |-> "andy.o'brien@conocophillips.com"],
     [name |-> "NextEra Energy, Inc.", domain |-> "nexteraenergy.com", industry |-> "Energy",
      employee_count |-> 17000, name_has_Tech |-> FALSE,
      ceo |-> "john.ketchum@nexteraenergy.com", exec2 |-> "michael.dunne@nexteraenergy.com"],
     [name |-> "Duke Energy Corporation", domain |-> "duke-energy.com", industry |-> "Energy",
      employee_count |-> 27000, name_has_Tech |-> FALSE,
      ceo |-> "harry.sideris@duke-energy.com", exec2 |-> "brian.savoy@duke-energy.com"],
     [name |-> "Walmart Inc.", domain |-> "walmart.com", industry |-> "Retail",
      employee_count |-> 2100000, name_has_Tech |-> FALSE,
      ceo |-> "doug.mcmillon@walmart.com", exec2 |-> "johndavid.rainey@walmart.com"],
     [name |-> "Amazon.com, Inc.", domain |-> "amazon.com", industry |-> "Retail",
      employee_count |-> 1556000, name_has_Tech |-> FALSE,
      ceo |-> "andy.jassy@amazon.com", exec2 |-> "brian.olsavsky@amazon.com"],
     [name |-> "Costco Wholesale Corporation", domain |-> "costco.com", industry |-> "Retail",
      employee_count |-> 341000, name_has_Tech |-> FALSE,
      ceo |-> "ron.vachris@costco.com", exec2 |-> "gary.millerchip@costco.com"],
     [name |-> "The Home Depot, Inc.", domain |-> "homedepot.com", industry |-> "Retail",
      employee_count |-> 521000, name_has_Tech |-> FALSE,
      ceo |-> "ted.decker@homedepot.com", exec2 |-> "richard.mcphail@homedepot.com"],
     [name |-> "The Procter & Gamble Company", domain |-> "pg.com", industry |-> "Retail",
      employee_count |-> 109000, name_has_Tech |-> FALSE,
      ceo |-> "jon.moeller@pg.com", exec2 |-> "andre.schulten@pg.com"],
     [name |-> "Lockheed Martin Corporation", domain |-> "lockheedmartin.com", industry |-> "Industrial",
      employee_count |-> 122000, name_has_Tech |-> FALSE,
      ceo |-> "james.taiclet@lockheedmartin.com", exec2 |-> "evan.scott@lockheedmartin.com"],
     [name |-> "Caterpillar Inc.", domain |-> "caterpillar.com", industry |-> "Industrial",
      employee_count |-> 52000, name_has_Tech |-> FALSE,
      ceo |-> "joe.creed@caterpillar.com", exec2 |-> "andrew.bonfield@caterpillar.com"],
     [name |-> "3M Company", domain |-> "3m.com", industry |-> "Industrial",
      employee_count |-> 85000, name_has_Tech |-> FALSE,
      ceo |-> "william.brown@3m.com", exec2 |-> "anurag.maheshwari@3m.com"],
     [name |-> "FedEx Corporation", domain |-> "fedex.com", industry |-> "Industrial",
      employee_count |-> 430000, name_has_Tech |-> FALSE,
      ceo |-> "rajesh.subramaniam@fedex.com", exec2 |-> "john.dietrich@fedex.com"],
     [name |-> "The Boeing Company", domain |-> "boeing.com", industry |-> "Industrial",
      employee_count |-> 156000, name_has_Tech |-> FALSE,
      ceo |-> "kelly.ortberg@boeing.com", exec2 |-> "jay.malave@boeing.com"] >>

DEALS ==
  << [name |-> "Apple - Enterprise License Agreement", stage |-> "Nurture", value |-> 75000,
      close_date |-> 20260215, company_idx |-> 0],
     [name |-> "Microsoft - Cloud Migration Suite", stage |-> "Nurture", value |-> 120000,
      close_date |-> 20260401, company_idx |-> 1],
     [name |-> "UnitedHealth - Data Platform", stage |-> "Nurture", value |-> 45000,
      close_date |-> 20260130, company_idx |-> 23],
     [name |-> "JPMorgan - Risk Analytics", stage |-> "Nurture", value |-> 95000,
      close_date |-> 20260315, company_idx |-> 29],
     [name |-> "Lockheed Martin - IoT Sensors", stage |-> "Nurture", value |-> 32000,
      close_date |-> 20260501, company_idx |-> 45],
     [name |-> "Alphabet - AI Infrastructure", stage |-> "Nurture", value |-> 180000,
      close_date |-> 20260228, company_idx |-> 2],
     [name |-> "Intel - Analytics Tier", stage |-> "Nurture", value |-> 65000,
      close_date |-> 20260115, company_idx |-> 10],
     [name |-> "Johnson & Johnson - Portal", stage |-> "Nurture", value |-> 52000,
      close_date |-> 20260601, company_idx |-> 24],
     [name |-> "NextEra Energy - Grid Monitor", stage |-> "Nurture", value |-> 28000,
      close_date |-> 20260220, company_idx |-> 43],
     [name |-> "Walmart - POS Integration", stage |-> "Nurture", value |-> 41000,
      close_date |-> 20260701, company_idx |-> 38],
     [name |-> "Goldman Sachs - Compliance", stage |-> "Nurture", value |-> 18000,
      close_date |-> 20260110, company_idx |-> 30],
     [name |-> "Zebra Technologies - Starter Plan", stage |-> "Nurture", value |-> 15000,
      close_date |-> 20260801, company_idx |-> 18],
     [name |-> "Broadcom - Security Audit Tool", stage |-> "Nurture", value |-> 88000,
      close_date |-> 20260210, company_idx |-> 5],
     [name |-> "Abbott - Lab Module", stage |-> "Nurture", value |-> 67000,
      close_date |-> 20260320, company_idx |-> 28],
     [name |-> "Morgan Stanley - Trading Platform", stage |-> "Nurture", value |-> 110000,
      close_date |-> 20260125, company_idx |-> 31],
     [name |-> "Caterpillar - QA Suite", stage |-> "Nurture", value |-> 37000,
      close_date |-> 20260415, company_idx |-> 46],
     [name |-> "Netflix - Content Platform", stage |-> "Nurture", value |-> 42000,
      close_date |-> 20260205, company_idx |-> 13],
     [name |-> "Duke Energy - Turbine Monitor", stage |-> "Nurture", value |-> 53000,
      close_date |-> 20260901, company_idx |-> 44],
     [name |-> "Costco - Inventory System", stage |-> "Nurture", value |-> 29000,
      close_date |-> 20260120, company_idx |-> 40],
     [name |-> "Adobe - CMS Integration", stage |-> "Nurture", value |-> 34000,
      close_date |-> 20260515, company_idx |-> 12],
     [name |-> "Visa - Payment Gateway", stage |-> "Nurture", value |-> 22000,
      close_date |-> 20260212, company_idx |-> 33],
     [name |-> "DXC Technology - Data Pipeline", stage |-> "Nurture", value |-> 156000,
      close_date |-> 20260615, company_idx |-> 15],
     [name |-> "Qualcomm - Dev License", stage |-> "Qualified", value |-> 85000,
      close_date |-> 20260225, company_idx |-> 11],
     [name |-> "AMD - Starter Pack", stage |-> "Qualified", value |-> 12000,
      close_date |-> 20260310, company_idx |-> 14],
     [name |-> "Bank of America - Trading Platform", stage |-> "Qualified", value |-> 250000,
      close_date |-> 20260105, company_idx |-> 32],
     [name |-> "Boeing - ERP Module", stage |-> "Qualified", value |-> 145000,
      close_date |-> 20260420, company_idx |-> 49],
     [name |-> "Pfizer - Research Platform", stage |-> "Qualified", value |-> 38000,
      close_date |-> 20260218, company_idx |-> 25],
     [name |-> "ConocoPhillips - Dashboard", stage |-> "Qualified", value |-> 56000,
      close_date |-> 20260530, company_idx |-> 42],
     [name |-> "CVS Health - Telehealth", stage |-> "Qualified", value |-> 92000,
      close_date |-> 20260128, company_idx |-> 27],
     [name |-> "Chevron - Analytics Dashboard", stage |-> "Qualified", value |-> 47000,
      close_date |-> 20260305, company_idx |-> 41],
     [name |-> "Home Depot - Inventory AI", stage |-> "Proposal", value |-> 175000,
      close_date |-> 20260208, company_idx |-> 37],
     [name |-> "Lumen Technologies - Platform", stage |-> "Proposal", value |-> 63000,
      close_date |-> 20260601, company_idx |-> 19],
     [name |-> "Exxon Mobil - Supply Chain", stage |-> "Proposal", value |-> 98000,
      close_date |-> 20251215, company_idx |-> 39],
     [name |-> "3M - Quality Control", stage |-> "Proposal", value |-> 72000,
      close_date |-> 20260112, company_idx |-> 47],
     [name |-> "Seagate Technology - Render Farm", stage |-> "Proposal", value |-> 44000,
      close_date |-> 20260720, company_idx |-> 20],
     [name |-> "Marvell Technology - ML Toolkit", stage |-> "Proposal", value |-> 81000,
      close_date |-> 20260222, company_idx |-> 22],
     [name |-> "FedEx - Logistics Platform", stage |-> "Negotiation", value |-> 132000,
      close_date |-> 20260118, company_idx |-> 48],
     [name |-> "Elevance Health - Claims System", stage |-> "Negotiation", value |-> 210000,
      close_date |-> 20260301, company_idx |-> 26],
     [name |-> "Amazon - API Infrastructure", stage |-> "Negotiation", value |-> 58000,
      close_date |-> 20251130, company_idx |-> 39],
     [name |-> "P&G - Analytics Platform", stage |-> "Negotiation", value |-> 39000,
      close_date |-> 20260214, company_idx |-> 36],
     [name |-> "Meta - Developer Tools", stage |-> "Closed Won", value |-> 165000,
      close_date |-> 20251015, company_idx |-> 3],
     [name |-> "NVIDIA - GPU Compute License", stage |-> "Closed Won", value |-> 78000,
      close_date |-> 20250901, company_idx |-> 4],
     [name |-> "Cisco - Network Monitor", stage |-> "Closed Won", value |-> 54000,
      close_date |-> 20251120, company_idx |-> 8],
     [name |-> "Berkshire Hathaway - Enterprise Platform", stage |-> "Closed Won", value |-> 480000,
      close_date |-> 20250810, company_idx |-> 34],
     [name |-> "Oracle - Cloud Integration", stage |-> "Closed Won", value |-> 33000,
      close_date |-> 20251205, company_idx |-> 6],
     [name |-> "Salesforce - Platform Extension", stage |-> "Closed Won", value |-> 91000,
      close_date |-> 20251028, company_idx |-> 7],
     [name |-> "IBM - Consulting Engagement", stage |-> "Closed Lost", value |-> 46000,
      close_date |-> 20250715, company_idx |-> 9],
     [name |-> "Microchip Technology - Dev Tools", stage |-> "Closed Lost", value |-> 27000,
      close_date |-> 20250920, company_idx |-> 21],
     [name |-> "Roper Technologies - SaaS Module", stage |-> "Closed Lost", value |-> 35000,
      close_date |-> 20250830, company_idx |-> 16],
     [name |-> "Agilent Technologies - Lab System", stage |-> "Closed Lost", value |-> 61000,
      close_date |-> 20251110, company_idx |-> 17] >>

(***************************************************************************)
(* State.                                                                  *)
(***************************************************************************)
VARIABLES
  api_key,          \* ATTIO_API_KEY is set in the environment
  dataset,          \* which data the script file carries (see Datasets)
  pc,               \* control point of the process
  exit_code,        \* -1 while running, else the process exit status
  i,                \* index of the current loop (1-based)
  e,                \* index into the executives of company i (create_people)
  company_records,  \* create_companies' list: <<>> is None, <<r>> a record
  people_created,   \* create_people's counter
  deal_records,     \* create_deals' list
  report,           \* the last per-item line printed
  mapping,          \* seed-record-mapping.json
  now,              \* time since process start, hundredths of a second
  calls,            \* bag of the calls api_call made in this run, by item
  last,             \* the last request api_call sent and its response
  returned,         \* the companies and deals whose call came back with a
                    \* record, and the record's id
  fail_budget,      \* abnormal responses the remote may still give
  run,              \* number of the current run of the job
  remote,           \* the workspace behind the API
  prev_remote       \* the workspace as the previous run left it

prog_vars == << api_key, dataset, pc, exit_code, i, e, company_records,
                people_created, deal_records, report, mapping, now, calls, last,
                returned >>
env_vars  == << fail_budget, run, remote, prev_remote >>

None == << >>
Some(x) == << x >>

(***************************************************************************)
(* The state of scripts/count_tokens.py, the other script of the           *)
(* repository: a separate process that reads the raw responses under the   *)
(* repository and writes token-counts-verified.csv.                        *)
(***************************************************************************)
VARIABLES
  tree,             \* the directories data/raw and raw: absent or a listing
  csv_files,        \* token-counts-verified.csv in data/ and in the base
  reporter_pc,      \* control point of the reporter process
  reporter_exit,    \* -1 while running, else the process exit status
  data_dir,         \* main's data_dir: "data/raw", "raw", or "" before
  entry_idx,        \* position in sorted(data_dir.iterdir()) (1-based)
  file_idx,         \* position in sorted(toolkit_dir.glob("*.json"))
  results,          \* main's list of result rows
  stdout            \* what the reporter has printed

rep_vars == << tree, csv_files, reporter_pc, reporter_exit, data_dir, entry_idx,
               file_idx,
               results, stdout >>

vars == << api_key, dataset, pc, exit_code, i, e, company_records,
           people_created, deal_records, report, mapping, now, calls, last,
           returned, fail_budget, run, remote, prev_remote,
           tree, csv_files, reporter_pc, reporter_exit, data_dir, entry_idx,
           file_idx, results, stdout >>

seed_vars == << api_key, dataset, pc, exit_code, i, e, company_records,
                people_created, deal_records, report, mapping, now, calls, last,
                returned, fail_budget, run, remote, prev_remote >>

\* Neither data/raw nor raw exists; no CSV has been written.
NoTree == [data_raw |-> None, raw |-> None]

NoCsv == [data |-> None, base |-> None]

NoOutput ==
  [error |-> "", table |-> << >>, columns |-> << >>, comparison |-> << >>,
   csv_path |-> ""]

\* The reporter has not been started.
ReporterStart ==
  /\ reporter_pc = "start"
  /\ reporter_exit = -1
  /\ data_dir = ""
  /\ entry_idx = 1
  /\ file_idx = 1
  /\ results = << >>
  /\ stdout = NoOutput

(***************************************************************************)
(* The data the script file carries.  "bundled" is the repository's file;  *)
(* the others are the file with its lists edited, as an operator testing   *)
(* the validator would: 20 companies, 10 deals, three Nurture deals moved  *)
(* to another stage, and the value of the first deal raised to that of the *)
(* highest one.                                                            *)
(***************************************************************************)
Datasets ==
  { "bundled", "shrunk_companies", "shrunk_deals", "few_nurture",
    "tied_highest" }

\* max(DEALS, key=lambda d: d["value"]): the first entry of the greatest value
highest(deals) ==
  deals[CHOOSE k \in DOMAIN deals :
          /\ \A j \in DOMAIN deals : deals[j].value <= deals[k].value
          /\ \A j \in 1..(k - 1) : deals[j].value < deals[k].value]

CompaniesOf(ds) ==
  IF ds = "shrunk_companies" THEN SubSeq(COMPANIES, 1, 20) ELSE COMPANIES

DealsOf(ds) ==
  CASE ds = "shrunk_deals" -> SubSeq(DEALS, 1, 10)
    [] ds = "few_nurture" ->
         [k \in 1..Len(DEALS) |->
            IF k <= 3 THEN [DEALS[k] EXCEPT !.stage = "Qualified"] ELSE DEALS[k]]
    [] ds = "tied_highest" ->
         [DEALS EXCEPT ![1].value = highest(DEALS).value]
    [] OTHER -> DEALS

FILES == [ds \in Datasets |-> [companies |-> CompaniesOf(ds), deals |-> DealsOf(ds)]]

\* The module globals COMPANIES and DEALS of the running process.
Companies == FILES[dataset].companies

Deals == FILES[dataset].deals

(***************************************************************************)
(* validate_scenarios(): the eight checks, in order.  Each list            *)
(* comprehension is the set of the positions it selects.                   *)
(***************************************************************************)
scenario_checks(companies, deals) ==
  LET nurture       == { k \in DOMAIN deals : deals[k].stage = "Nurture" }
      high_value    == { k \in DOMAIN deals : deals[k].value > 50000 }
      tech_name     == { k \in DOMAIN companies : companies[k].name_has_Tech }
      tech_industry == { k \in DOMAIN companies :
                           companies[k].industry = "Technology" }
      large_tech    == { k \in DOMAIN companies :
                           /\ companies[k].industry = "Technology"
                           /\ companies[k].employee_count > 100 }
      pre_march     == { k \in DOMAIN deals : deals[k].close_date < 20260301 }
  IN  << Len(companies) >= 25,
         Cardinality(nurture) >= 20,
         Cardinality(high_value) >= 10,
         Cardinality(tech_name) >= 8,
         Cardinality(tech_industry) >= 10,
         Cardinality(pre_march) >= 15,
         Cardinality(large_tech) >= 5,
         TRUE >>

\* all(ok for ok, _ in checks)
validate_scenarios(companies, deals) ==
  \A k \in DOMAIN scenario_checks(companies, deals) :
    scenario_checks(companies, deals)[k]

(***************************************************************************)
(* api_call(method, path, json_data, label).                               *)
(* A request is what goes on the wire: method, path, the value of the      *)
(* matching or identifying attribute in the body (domain, e-mail, slug,    *)
(* deal name), the record id in the path (PATCH) and the company reference *)
(* in the body (people, deals); 0 is "absent".                             *)
(* A response is a status (0: no response, the client raised) and, for a   *)
(* 2xx, whether the JSON object has "data" and the record id in it.        *)
(***************************************************************************)
Req(method, path, match, target, company) ==
  [method |-> method, path |-> path, match |-> match, target |-> target,
   company |-> company]

NoRequest == Req("", "", "", 0, 0)

\* Mutant: the stage update is sent without the wait.
SleepBefore_notForPatch(req) ==
  IF req.method = "PATCH" THEN 0 ELSE RATE_LIMIT_DELAY

\* time.sleep(RATE_LIMIT_DELAY), the first statement of api_call
SleepBefore(req) == RATE_LIMIT_DELAY

\* Mutant: api_call without its 409 branch: a conflict is an error like any
\* other status.
api_result_no409(resp) ==
  IF resp.status \in {200, 201}
    THEN [none |-> FALSE, conflict |-> FALSE, data |-> resp.has_data,
          record_id |-> resp.record_id]
    ELSE [none |-> TRUE, conflict |-> FALSE, data |-> FALSE, record_id |-> 0]

\* What api_call returns: None, the conflict dict, or resp.json().
api_result(resp) ==
  IF resp.status \in {200, 201}
    THEN [none |-> FALSE, conflict |-> FALSE, data |-> resp.has_data,
          record_id |-> resp.record_id]
  ELSE IF resp.status = 409
    THEN [none |-> FALSE, conflict |-> TRUE, data |-> FALSE, record_id |-> 0]
  ELSE [none |-> TRUE, conflict |-> FALSE, data |-> FALSE, record_id |-> 0]

\* "if result and 'data' in result"
HasData(result) == ~result.none /\ result.data

\* Mutant: api_call sends the request a second time when the first attempt
\* gave an error status or raised.
ApiCall_retry(key, req, resp) ==
  /\ now' = now + SleepBefore(req)
  /\ calls' = IF resp.status \in {200, 201, 409}
                THEN calls (+) SetToBag({key})
                ELSE calls (+) SetToBag({key}) (+) SetToBag({key})
  /\ last' = [key |-> key, req |-> req, status |-> resp.status,
              sent_at |-> now', prev_sent_at |-> last.sent_at]
  /\ returned' = IF /\ key[1] \in {"company", "deal"}
                      /\ resp.status \in {200, 201}
                      /\ resp.has_data
                   THEN returned \cup { << key, resp.record_id >> }
                   ELSE returned

\* The bookkeeping of one api_call: the wait, then the request.
ApiCall(key, req, resp) ==
  /\ now' = now + SleepBefore(req)
  /\ calls' = calls (+) SetToBag({key})
  /\ last' = [key |-> key, req |-> req, status |-> resp.status,
              sent_at |-> now', prev_sent_at |-> last.sent_at]
  /\ returned' = IF /\ key[1] \in {"company", "deal"}
                      /\ resp.status \in {200, 201}
                      /\ resp.has_data
                   THEN returned \cup { << key, resp.record_id >> }
                   ELSE returned

Exit(code) ==
  /\ pc' = "exited"
  /\ exit_code' = code

(***************************************************************************)
(* The requests the script builds.                                         *)
(***************************************************************************)
SelfRequest == Req("GET", "/self", "", 0, 0)

CompanyAttributeRequest(slug) ==
  Req("POST", "/objects/companies/attributes", slug, 0, 0)

DealAttributeRequest(slug) ==
  Req("POST", "/objects/deals/attributes", slug, 0, 0)

\* Mutant: create_companies creates the record (POST, no matching attribute)
\* instead of asserting it.
CompanyRequest_create(c) ==
  Req("POST", "/objects/companies/records", c.domain, 0, 0)

CompanyRequest(c) ==
  Req("PUT", "/objects/companies/records?matching_attribute=domains",
      c.domain, 0, 0)

\* Mutant: the person is upserted without the reference to the company.
PersonRequest_unlinked(email, company_id) ==
  Req("PUT", "/objects/people/records?matching_attribute=email_addresses",
      email, 0, 0)

PersonRequest(email, company_id) ==
  Req("PUT", "/objects/people/records?matching_attribute=email_addresses",
      email, 0, company_id)

\* "if company_idx is not None and company_records[company_idx]": the
\* reference is left out of the payload when that company's entry is None.
DealCompany(d, records) ==
  IF records[d.company_idx + 1] # None
    THEN records[d.company_idx + 1][1].record_id
    ELSE 0

\* Mutant: create_deals asserts the deal by its name (PUT with a matching
\* attribute), as create_companies does for the domain.
DealRequest_upsert(d, records) ==
  Req("PUT", "/objects/deals/records?matching_attribute=name", d.name, 0,
      DealCompany(d, records))

DealRequest(d, records) ==
  Req("POST", "/objects/deals/records", d.name, 0, DealCompany(d, records))

StageRequest(record_id, stage) ==
  Req("PATCH", "/objects/deals/records/{record_id}", stage, record_id, 0)

\* [c["ceo"], c.get("exec2")] without the entries "if not exec_data" skips
Execs(c) == SelectSeq(<< c.ceo, c.exec2 >>, LAMBDA x : x # "")

\* The item a call is made for: <<kind, index, executive>>.
Key(kind, idx, sub) == << kind, idx, sub >>

NoKey == Key("", 0, 0)

(***************************************************************************)
(* main(): the order of the phases.                                        *)
(***************************************************************************)
\* Mutant: main() creates the deals before the people.
NextPhase_dealsFirst(p) ==
  CASE p = "preflight"     -> "attrs_company"
    [] p = "attrs_company" -> "attrs_deal"
    [] p = "attrs_deal"    -> "companies"
    [] p = "companies"     -> "deals"
    [] p = "deals"         -> "people"
    [] OTHER               -> "save"

NextPhase(p) ==
  CASE p = "preflight"     -> "attrs_company"
    [] p = "attrs_company" -> "attrs_deal"
    [] p = "attrs_deal"    -> "companies"
    [] p = "companies"     -> "people"
    [] p = "people"        -> "deals"
    [] p = "deals"         -> "save"
    [] OTHER               -> "save"

\* create_people's outer loop: the first company from index k on for which
\* it makes calls, 0 when there is none.  "if company_records[i] is None:
\* continue" passes over a company whose entry is None, and the inner loop
\* makes no call for a company without executives.
PeopleFrom(k, records) ==
  LET todo == { j \in k..Len(records) :
                  records[j] # None /\ Execs(Companies[j]) # << >> }
  IN  IF todo = {} THEN 0 ELSE CHOOSE j \in todo : \A m \in todo : j <= m

\* Control moves to the first call of phase p, or past a phase without calls.
Enter(p, records) ==
  IF p = "people" /\ PeopleFrom(1, records) = 0
    THEN /\ pc' = NextPhase(p)
         /\ i' = 1
  ELSE IF p = "people"
    THEN /\ pc' = p
         /\ i' = PeopleFrom(1, records)
  ELSE /\ pc' = p
       /\ i' = 1

\* Leave the loop over a list of length n after its last item.
Advance(n, records) ==
  IF i < n
    THEN /\ i' = i + 1
         /\ pc' = pc
    ELSE Enter(NextPhase(pc), records)

(***************************************************************************)
(* Module level, lines 68-72, 221 and 292: the credential and the two      *)
(* length asserts run when the file is loaded, before main().              *)
(***************************************************************************)
LoadModule ==
  /\ pc = "load"
  /\ IF ~api_key
       THEN Exit(1)
     ELSE IF Len(Companies) # 50 \/ Len(Deals) # 50
       THEN Exit(1)
     ELSE /\ pc' = "validate"
          /\ UNCHANGED exit_code
  /\ UNCHANGED << api_key, dataset, i, e, company_records, people_created,
                  deal_records, report, mapping, now, calls, last, returned >>

\* Mutant: main() goes on whatever validate_scenarios() returned.
Validate_unchecked ==
  /\ pc = "validate"
  /\ pc' = "preflight"
  /\ UNCHANGED << api_key, dataset, exit_code, i, e, company_records,
                  people_created, deal_records, report, mapping, now, calls,
                  last, returned >>

\* main(), lines 603-606
Validate ==
  /\ pc = "validate"
  /\ IF ~validate_scenarios(Companies, Deals)
       THEN Exit(1)
       ELSE /\ pc' = "preflight"
            /\ UNCHANGED exit_code
  /\ UNCHANGED << api_key, dataset, i, e, company_records, people_created,
                  deal_records, report, mapping, now, calls, last, returned >>

\* Mutant: main() does not look at what the connectivity check returned.
Preflight_nocheck(resp) ==
  /\ pc = "preflight"
  /\ ApiCall(Key("self", 0, 0), SelfRequest, resp)
  /\ pc' = NextPhase(pc)
  /\ UNCHANGED << api_key, dataset, exit_code, i, e, company_records,
                  people_created, deal_records, report, mapping >>

\* main(), lines 608-615
Preflight(resp) ==
  /\ pc = "preflight"
  /\ ApiCall(Key("self", 0, 0), SelfRequest, resp)
  /\ IF api_result(resp).none
       THEN Exit(1)
       ELSE /\ pc' = NextPhase(pc)
            /\ UNCHANGED exit_code
  /\ UNCHANGED << api_key, dataset, i, e, company_records, people_created,
                  deal_records, report, mapping >>

(***************************************************************************)
(* Phase 1, create_custom_attributes(): one iteration of either loop.      *)
(***************************************************************************)
AttributeLine(result) ==
  IF ~result.none /\ ~result.conflict THEN "+"
  ELSE IF ~result.none /\ result.conflict THEN "~ (already exists)"
  ELSE "! (failed)"

CreateCompanyAttribute(resp) ==
  /\ pc = "attrs_company"
  /\ ApiCall(Key("attr_company", i, 0),
             CompanyAttributeRequest(COMPANY_CUSTOM_ATTRIBUTES[i]), resp)
  /\ report' = [key |-> Key("attr_company", i, 0),
                line |-> AttributeLine(api_result(resp))]
  /\ Advance(Len(COMPANY_CUSTOM_ATTRIBUTES), company_records)
  /\ UNCHANGED << api_key, dataset, exit_code, e, company_records,
                  people_created, deal_records, mapping >>

CreateDealAttribute(resp) ==
  /\ pc = "attrs_deal"
  /\ ApiCall(Key("attr_deal", i, 0),
             DealAttributeRequest(DEAL_CUSTOM_ATTRIBUTES[i]), resp)
  /\ report' = [key |-> Key("attr_deal", i, 0),
                line |-> AttributeLine(api_result(resp))]
  /\ Advance(Len(DEAL_CUSTOM_ATTRIBUTES), company_records)
  /\ UNCHANGED << api_key, dataset, exit_code, e, company_records,
                  people_created, deal_records, mapping >>

(***************************************************************************)
(* Phase 2, create_companies(): one iteration.                             *)
(***************************************************************************)
\* Mutant: create_companies gives up the whole job when an upsert fails.
CreateCompany_strict(resp) ==
  /\ pc = "companies"
  /\ LET c      == Companies[i]
         result == api_result(resp)
         entry  == IF HasData(result)
                     THEN Some([record_id |-> result.record_id,
                                name |-> c.name, idx |-> i - 1])
                     ELSE None
     IN  /\ ApiCall(Key("company", i, 0), CompanyRequest(c), resp)
         /\ company_records' = Append(company_records, entry)
         /\ report' = [key |-> Key("company", i, 0),
                       line |-> IF HasData(result) THEN "->" ELSE "FAILED"]
         /\ IF HasData(result)
              THEN /\ Advance(Len(Companies), Append(company_records, entry))
                   /\ UNCHANGED exit_code
              ELSE /\ Exit(1)
                   /\ UNCHANGED i
  /\ UNCHANGED << api_key, dataset, e, people_created, deal_records, mapping >>

\* Mutant: create_companies appends nothing for an upsert that failed, so
\* that the entries after it move down by one.
CreateCompany_skipsFailed(resp) ==
  /\ pc = "companies"
  /\ LET c       == Companies[i]
         result  == api_result(resp)
         records == IF HasData(result)
                      THEN Append(company_records,
                                  Some([record_id |-> result.record_id,
                                        name |-> c.name, idx |-> i - 1]))
                      ELSE company_records
     IN  /\ ApiCall(Key("company", i, 0), CompanyRequest(c), resp)
         /\ company_records' = records
         /\ report' = [key |-> Key("company", i, 0),
                       line |-> IF HasData(result) THEN "->" ELSE "FAILED"]
         /\ Advance(Len(Companies), records)
  /\ UNCHANGED << api_key, dataset, exit_code, e, people_created,
                  deal_records, mapping >>

CreateCompany(resp) ==
  /\ pc = "companies"
  /\ LET c      == Companies[i]
         result == api_result(resp)
         entry  == IF HasData(result)
                     THEN Some([record_id |-> result.record_id,
                                name |-> c.name, idx |-> i - 1])
                     ELSE None
     IN  /\ ApiCall(Key("company", i, 0), CompanyRequest(c), resp)
         /\ company_records' = Append(company_records, entry)
         /\ report' = [key |-> Key("company", i, 0),
                       line |-> IF HasData(result) THEN "->" ELSE "FAILED"]
         /\ Advance(Len(Companies), Append(company_records, entry))
  /\ UNCHANGED << api_key, dataset, exit_code, e, people_created,
                  deal_records, mapping >>

(***************************************************************************)
(* Phase 3, create_people(company_records).                                *)
(***************************************************************************)
\* One iteration of the inner loop: the upsert of executive e of company i.
CreatePerson(resp) ==
  /\ pc = "people"
  /\ LET c          == Companies[i]
         company_id == company_records[i][1].record_id
         email      == Execs(c)[e]
         result     == api_result(resp)
         created    == IF HasData(result) THEN people_created + 1
                                          ELSE people_created
     IN  /\ ApiCall(Key("person", i, e), PersonRequest(email, company_id), resp)
         /\ people_created' = created
         /\ report' = IF HasData(result) /\ (created <= 5 \/ created % 20 = 0)
                        THEN [key |-> Key("person", i, e), line |-> "created"]
                        ELSE report
         /\ IF e < Len(Execs(c))
              THEN /\ e' = e + 1
                   /\ UNCHANGED << i, pc >>
              ELSE /\ e' = 1
                   /\ IF PeopleFrom(i + 1, company_records) = 0
                        THEN Enter(NextPhase(pc), company_records)
                        ELSE /\ i' = PeopleFrom(i + 1, company_records)
                             /\ pc' = pc
  /\ UNCHANGED << api_key, dataset, exit_code, company_records, deal_records,
                  mapping >>

(***************************************************************************)
(* Phase 4, create_deals(company_records): the creation call of deal i,    *)
(* and, when it returned a record, the stage update that follows it.       *)
(***************************************************************************)
AfterDeal ==
  IF i < Len(Deals)
    THEN /\ i' = i + 1
         /\ pc' = "deals"
    ELSE Enter(NextPhase("deals"), company_records)

\* Mutant: create_deals goes on to the next deal without the stage update.
AfterDealPost_noStage(result) == AfterDeal

\* The control point after the creation call of a deal returned `result`.
AfterDealPost(result) ==
  IF HasData(result) THEN pc' = "deal_stage" /\ i' = i ELSE AfterDeal

CreateDeal(resp) ==
  /\ pc = "deals"
  /\ LET d      == Deals[i]
         result == api_result(resp)
     IN  /\ ApiCall(Key("deal", i, 0), DealRequest(d, company_records), resp)
         /\ IF HasData(result)
              THEN /\ deal_records' =
                        Append(deal_records,
                               Some([record_id |-> result.record_id,
                                     name |-> d.name, stage |-> d.stage]))
                   /\ report' = [key |-> Key("deal", i, 0), line |-> "->"]
              ELSE /\ deal_records' = Append(deal_records, None)
                   /\ report' = [key |-> Key("deal", i, 0), line |-> "FAILED"]
         /\ AfterDealPost(result)
  /\ UNCHANGED << api_key, dataset, exit_code, e, company_records,
                  people_created, mapping >>

\* Mutant: create_deals looks at what the stage update returned and drops
\* the deal's record when the update failed.
UpdateStage_checked(resp) ==
  /\ pc = "deal_stage"
  /\ ApiCall(Key("stage", i, 0),
             StageRequest(deal_records[i][1].record_id, Deals[i].stage), resp)
  /\ deal_records' = IF api_result(resp).none \/ api_result(resp).conflict
                       THEN [deal_records EXCEPT ![i] = None]
                       ELSE deal_records
  /\ AfterDeal
  /\ UNCHANGED << api_key, dataset, exit_code, e, company_records,
                  people_created, report, mapping >>

\* line 579: the result of the stage update is not looked at
UpdateStage(resp) ==
  /\ pc = "deal_stage"
  /\ ApiCall(Key("stage", i, 0),
             StageRequest(deal_records[i][1].record_id, Deals[i].stage), resp)
  /\ AfterDeal
  /\ UNCHANGED << api_key, dataset, exit_code, e, company_records,
                  people_created, deal_records, report, mapping >>

(***************************************************************************)
(* main(), lines 623-659: the mapping file, the summary, and the return    *)
(* from main (exit status 0).                                              *)
(***************************************************************************)
Present(records) == SelectSeq(records, LAMBDA r : r # None)

Unwrap(records) == [k \in DOMAIN records |-> records[k][1]]

\* Mutant: the metadata counts the items that were attempted, not those
\* that were created.
SaveAndFinish_countsAttempts ==
  /\ pc = "save"
  /\ mapping' =
       [run |-> run,
        companies |-> Unwrap(Present(company_records)),
        deals |-> Unwrap(Present(deal_records)),
        total_companies |-> Len(company_records),
        total_deals |-> Len(deal_records),
        total_company_custom_attrs |-> Len(COMPANY_CUSTOM_ATTRIBUTES),
        total_deal_custom_attrs |-> Len(DEAL_CUSTOM_ATTRIBUTES)]
  /\ report' = [key |-> NoKey, line |-> "SEED COMPLETE"]
  /\ Exit(0)
  /\ UNCHANGED << api_key, dataset, i, e, company_records, people_created,
                  deal_records, now, calls, last, returned >>

SaveAndFinish ==
  /\ pc = "save"
  /\ mapping' =
       [run |-> run,
        companies |-> Unwrap(Present(company_records)),
        deals |-> Unwrap(Present(deal_records)),
        total_companies |-> Len(Present(company_records)),
        total_deals |-> Len(Present(deal_records)),
        total_company_custom_attrs |-> Len(COMPANY_CUSTOM_ATTRIBUTES),
        total_deal_custom_attrs |-> Len(DEAL_CUSTOM_ATTRIBUTES)]
  /\ report' = [key |-> NoKey, line |-> "SEED COMPLETE"]
  /\ Exit(0)
  /\ UNCHANGED << api_key, dataset, i, e, company_records, people_created,
                  deal_records, now, calls, last, returned >>

(***************************************************************************)
(* The request the process is about to send, and the item it is for.       *)
(***************************************************************************)
PendingKey ==
  CASE pc = "preflight"     -> Key("self", 0, 0)
    [] pc = "attrs_company" -> Key("attr_company", i, 0)
    [] pc = "attrs_deal"    -> Key("attr_deal", i, 0)
    [] pc = "companies"     -> Key("company", i, 0)
    [] pc = "people"        -> Key("person", i, e)
    [] pc = "deals"         -> Key("deal", i, 0)
    [] pc = "deal_stage"    -> Key("stage", i, 0)
    [] OTHER                -> NoKey

PendingRequest ==
  CASE pc = "preflight"     -> SelfRequest
    [] pc = "attrs_company" -> CompanyAttributeRequest(COMPANY_CUSTOM_ATTRIBUTES[i])
    [] pc = "attrs_deal"    -> DealAttributeRequest(DEAL_CUSTOM_ATTRIBUTES[i])
    [] pc = "companies"     -> CompanyRequest(Companies[i])
    [] pc = "people"        -> PersonRequest(Execs(Companies[i])[e],
                                             company_records[i][1].record_id)
    [] pc = "deals"         -> DealRequest(Deals[i], company_records)
    [] pc = "deal_stage"    -> StageRequest(deal_records[i][1].record_id,
                                            Deals[i].stage)
    [] OTHER                -> NoRequest

(***************************************************************************)
(* Environment 1: a remote that answers as it likes.  Its normal answer is *)
(* a 2xx with "data" and a record id of its choosing (one id per item);    *)
(* while fail_budget lasts it may instead answer 409, another status,      *)
(* nothing at all (time-out, connection error: the client raises), or a    *)
(* 2xx whose JSON object has no "data".                                    *)
(***************************************************************************)
IdFor(key) ==
  CASE key[1] = "company" -> 1000 + key[2]
    [] key[1] = "person"  -> 2000 + 2 * key[2] + key[3]
    [] key[1] = "deal"    -> 3000 + key[2]
    [] OTHER              -> 0

Response(status, has_data, record_id) ==
  [status |-> status, has_data |-> has_data, record_id |-> record_id]

NormalResponse(key, req) ==
  Response(IF req.method = "POST" THEN 201 ELSE 200, TRUE, IdFor(key))

AbnormalResponses ==
  { Response(409, FALSE, 0), Response(500, FALSE, 0), Response(0, FALSE, 0),
    Response(200, FALSE, 0) }

Responses(key, req) ==
  { NormalResponse(key, req) }
    \cup (IF fail_budget > 0 THEN AbnormalResponses ELSE {})

(***************************************************************************)
(* Environment 2: a workspace that keeps what it is sent.  POST on an      *)
(* attributes path creates the attribute or answers 409 when the slug      *)
(* exists; PUT with matching_attribute updates the record that has the     *)
(* value or creates one; POST on a records path always creates a record;   *)
(* PATCH sets the stage of the record named in the path.                   *)
(***************************************************************************)
AttributePaths ==
  { "/objects/companies/attributes", "/objects/deals/attributes" }

UpsertPaths ==
  { "/objects/companies/records?matching_attribute=domains",
    "/objects/people/records?matching_attribute=email_addresses" }

CreatePaths ==
  { "/objects/companies/records", "/objects/people/records",
    "/objects/deals/records" } \cup UpsertPaths

ObjectOf(path) ==
  CASE path \in { "/objects/companies/attributes", "/objects/companies/records",
                  "/objects/companies/records?matching_attribute=domains" }
         -> "companies"
    [] path \in { "/objects/people/records",
                  "/objects/people/records?matching_attribute=email_addresses" }
         -> "people"
    [] OTHER -> "deals"

EmptyRemote == [attributes |-> {}, records |-> {}, next_id |-> 1]

Matching(rem, req) ==
  { r \in rem.records : r.object = ObjectOf(req.path) /\ r.match = req.match }

IsUpsert(req) == req.method = "PUT" /\ req.path \in UpsertPaths

IsCreate(req) == req.method = "POST" /\ req.path \in CreatePaths

RemoteResponse(rem, req) ==
  CASE req.method = "GET" /\ req.path = "/self" -> Response(200, TRUE, 0)
    [] req.method = "POST" /\ req.path \in AttributePaths ->
         IF << req.path, req.match >> \in rem.attributes
           THEN Response(409, FALSE, 0)
           ELSE Response(200, TRUE, 0)
    [] IsUpsert(req) ->
         IF Matching(rem, req) # {}
           THEN Response(200, TRUE, (CHOOSE r \in Matching(rem, req) : TRUE).record_id)
           ELSE Response(200, TRUE, rem.next_id)
    [] IsCreate(req) -> Response(200, TRUE, rem.next_id)
    [] req.method = "PATCH"
         /\ \E r \in rem.records : r.record_id = req.target ->
         Response(200, TRUE, req.target)
    [] OTHER -> Response(404, FALSE, 0)

NewRecord(rem, req) ==
  [object |-> ObjectOf(req.path), record_id |-> rem.next_id,
   match |-> req.match, company |-> req.company, stage |-> ""]

RemoteApply(rem, req) ==
  CASE req.method = "POST" /\ req.path \in AttributePaths ->
         [rem EXCEPT !.attributes = @ \cup { << req.path, req.match >> }]
    [] IsUpsert(req) /\ Matching(rem, req) # {} ->
         [rem EXCEPT !.records =
            { IF r \in Matching(rem, req) THEN [r EXCEPT !.company = req.company]
                                          ELSE r : r \in @ }]
    [] IsUpsert(req) \/ IsCreate(req) ->
         [rem EXCEPT !.records = @ \cup { NewRecord(rem, req) },
                     !.next_id = @ + 1]
    [] req.method = "PATCH" ->
         [rem EXCEPT !.records =
            { IF r.record_id = req.target THEN [r EXCEPT !.stage = req.match]
                                          ELSE r : r \in @ }]
    [] OTHER -> rem

(***************************************************************************)
(* Specifications.                                                         *)
(***************************************************************************)
NoReport == [key |-> NoKey, line |-> ""]

NoCall ==
  [key |-> NoKey, req |-> NoRequest, status |-> 0, sent_at |-> 0,
   prev_sent_at |-> 0]

ProcessStart ==
  /\ pc = "load"
  /\ exit_code = -1
  /\ i = 1
  /\ e = 1
  /\ company_records = << >>
  /\ people_created = 0
  /\ deal_records = << >>
  /\ report = NoReport
  /\ now = 0
  /\ calls = EmptyBag
  /\ last = NoCall
  /\ returned = {}

NoMapping ==
  [run |-> 0, companies |-> << >>, deals |-> << >>, total_companies |-> 0,
   total_deals |-> 0, total_company_custom_attrs |-> 0,
   total_deal_custom_attrs |-> 0]

Init ==
  /\ api_key \in BOOLEAN
  /\ dataset \in Datasets
  /\ ProcessStart
  /\ mapping = NoMapping
  /\ fail_budget = MaxFail
  /\ run = 1
  /\ remote = EmptyRemote
  /\ prev_remote = EmptyRemote
  /\ tree = NoTree
  /\ csv_files = NoCsv
  /\ ReporterStart

\* An abnormal answer uses up one unit of the budget.
Spend(resp) ==
  /\ fail_budget' = IF resp = NormalResponse(PendingKey, PendingRequest)
                      THEN fail_budget ELSE fail_budget - 1
  /\ UNCHANGED << run, remote, prev_remote, rep_vars >>

Answers == Responses(PendingKey, PendingRequest)

Next ==
  \/ LoadModule /\ UNCHANGED << env_vars, rep_vars >>
  \/ Validate /\ UNCHANGED << env_vars, rep_vars >>
  \/ \E resp \in Answers : Preflight(resp) /\ Spend(resp)
  \/ \E resp \in Answers : CreateCompanyAttribute(resp) /\ Spend(resp)
  \/ \E resp \in Answers : CreateDealAttribute(resp) /\ Spend(resp)
  \/ \E resp \in Answers : CreateCompany(resp) /\ Spend(resp)
  \/ \E resp \in Answers : CreatePerson(resp) /\ Spend(resp)
  \/ \E resp \in Answers : CreateDeal(resp) /\ Spend(resp)
  \/ \E resp \in Answers : UpdateStage(resp) /\ Spend(resp)
  \/ SaveAndFinish /\ UNCHANGED << env_vars, rep_vars >>

Spec == Init /\ [][Next]_vars

\* The job run again and again against one workspace that keeps its records.
InitRerun ==
  /\ Init
  /\ api_key
  /\ dataset = "bundled"

\* The workspace answers the pending request and keeps its effect.
Served == RemoteResponse(remote, PendingRequest)

Keep ==
  /\ remote' = RemoteApply(remote, PendingRequest)
  /\ UNCHANGED << fail_budget, run, prev_remote, rep_vars >>

\* The operator starts the script again: a new process, the same workspace
\* and the same mapping file on disk.
Rerun ==
  /\ pc = "exited"
  /\ run < MaxRuns
  /\ run' = run + 1
  /\ prev_remote' = remote
  /\ pc' = "load"
  /\ exit_code' = -1
  /\ i' = 1
  /\ e' = 1
  /\ company_records' = << >>
  /\ people_created' = 0
  /\ deal_records' = << >>
  /\ report' = NoReport
  /\ now' = 0
  /\ calls' = EmptyBag
  /\ last' = NoCall
  /\ returned' = {}
  /\ UNCHANGED << api_key, dataset, mapping, fail_budget, remote, rep_vars >>

NextRerun ==
  \/ LoadModule /\ UNCHANGED << env_vars, rep_vars >>
  \/ Validate /\ UNCHANGED << env_vars, rep_vars >>
  \/ Preflight(Served) /\ Keep
  \/ CreateCompanyAttribute(Served) /\ Keep
  \/ CreateDealAttribute(Served) /\ Keep
  \/ CreateCompany(Served) /\ Keep
  \/ CreatePerson(Served) /\ Keep
  \/ CreateDeal(Served) /\ Keep
  \/ UpdateStage(Served) /\ Keep
  \/ SaveAndFinish /\ UNCHANGED << env_vars, rep_vars >>
  \/ Rerun

SpecRerun == InitRerun /\ [][NextRerun]_vars
(***************************************************************************)
(* Properties.                                                             *)
(***************************************************************************)
Aborted == pc = "exited" /\ exit_code # 0

Finished == pc = "exited" /\ exit_code = 0

\* The items of the given kinds for which api_call has been invoked.
Called(kinds) == { k \in BagToSet(calls) : k[1] \in kinds }

\* The checks of validate_scenarios() on each file, and the files that pass.
CHECKS ==
  [ds \in Datasets |-> scenario_checks(FILES[ds].companies, FILES[ds].deals)]

VALID ==
  { ds \in Datasets : validate_scenarios(FILES[ds].companies, FILES[ds].deals) }

\* C1: validate_scenarios() runs before any network call: api_call has been
\* invoked only in a run whose data passed validation, and a process whose
\* data fails a coverage check never gets past the validation, makes no
\* API call at all and, when it has exited, has exited non-zero.
C1_ValidationBeforeAnyCall ==
  /\ calls # EmptyBag => dataset \in VALID /\ pc \notin {"load", "validate"}
  /\ dataset \notin VALID =>
        /\ pc \in {"load", "validate", "exited"}
        /\ calls = EmptyBag
        /\ now = 0
        /\ pc = "exited" => exit_code # 0

\* A file of 50 companies and 50 deals with only 19 Nurture deals, run with
\* the credential set, has been stopped by the validator.
C1_Witness ==
  /\ api_key
  /\ Len(Companies) = 50 /\ Len(Deals) = 50
  /\ ~CHECKS[dataset][2]
  /\ Aborted
  /\ calls = EmptyBag
\* The connectivity check was answered with something api_call turns into
\* None: a status other than 200, 201 and 409, or no response at all.
PreflightFailed ==
  /\ last.key = Key("self", 0, 0)
  /\ last.status \notin {200, 201, 409}

\* C2: when ATTIO_API_KEY is missing the process gets no further than the
\* module level, and when the GET /self check fails it exits right there;
\* in both cases it has issued no POST, PUT or PATCH and its exit status is
\* non-zero.
C2_FatalPreconditions ==
  /\ ~api_key =>
       /\ pc \in {"load", "exited"}
       /\ calls = EmptyBag
       /\ pc = "exited" => exit_code # 0
  /\ PreflightFailed =>
       /\ Aborted
       /\ Called({"attr_company", "attr_deal", "company", "person", "deal",
                  "stage"}) = {}
       /\ last.req.method = "GET"

\* The connectivity check timed out (no response) and the process is gone.
C2_Witness ==
  /\ api_key
  /\ PreflightFailed
  /\ last.status = 0
  /\ Aborted

\* Phases of main() in the order the claim gives them; the stage updates
\* belong to the deal phase.
Rank(kind) ==
  CASE kind \in {"attr_company", "attr_deal"} -> 1
    [] kind = "company"                       -> 2
    [] kind = "person"                        -> 3
    [] kind \in {"deal", "stage"}             -> 4
    [] OTHER                                  -> 0

AllDealsCalled == \A k \in DOMAIN Deals : Key("deal", k, 0) \in BagToSet(calls)

\* C3: the calls of a run come in phase order: no call made so far belongs
\* to a later phase than the latest one (attributes, then companies, then
\* people, then deals), and the mapping file of this run exists only once
\* the creation call of every deal has been made and the process is over.
C3_PhaseOrder ==
  /\ \A k \in BagToSet(calls) : Rank(k[1]) <= Rank(last.key[1])
  /\ mapping.run = run => AllDealsCalled /\ Finished

\* A complete run with calls of all four phases and its mapping file.
C3_Witness ==
  /\ Finished
  /\ mapping.run = run
  /\ \A kind \in {"attr_company", "attr_deal", "company", "person", "deal"} :
       Called({kind}) # {}
DealCalled(k) == Key("deal", k, 0) \in BagToSet(calls)

StageCalled(k) == Key("stage", k, 0) \in BagToSet(calls)

\* C4 as stated: at the end of a run every one of the 50 deals has had its
\* creation call and its stage update call.
C4_EveryDealGetsStageUpdate ==
  Finished => \A k \in DOMAIN Deals : DealCalled(k) /\ StageCalled(k)

\* C4 amended: every deal gets its creation call; a creation call that
\* returned a record is followed at once by one PATCH of that record id with
\* the deal's stage (either it has been made, or the process stands right
\* before it with the creation as its latest call); a creation call that
\* returned no record gets no stage update.
C4_StageUpdateFollowsCreatedDeal ==
  /\ \A k \in DOMAIN deal_records :
       IF deal_records[k] # None
         THEN \/ StageCalled(k)
              \/ pc = "deal_stage" /\ i = k /\ last.key = Key("deal", k, 0)
         ELSE ~StageCalled(k)
  /\ \A key \in Called({"stage"}) : key[2] \in DOMAIN deal_records
  /\ pc = "deal_stage" => ~StageCalled(i) /\ PendingRequest.method = "PATCH"
  /\ last.key[1] = "stage" =>
       /\ last.req.method = "PATCH"
       /\ last.req.target = deal_records[last.key[2]][1].record_id
       /\ last.req.match = Deals[last.key[2]].stage
       /\ last.key[2] = Len(deal_records)
  /\ Finished => Len(deal_records) = 50 /\ \A k \in DOMAIN Deals : DealCalled(k)

\* A finished run in which one creation failed: 49 deals with their stage
\* updates, and none for the deal that was not created.
C4_Witness ==
  /\ Finished
  /\ Cardinality(Called({"stage"})) = 49
  /\ \E k \in DOMAIN deal_records : deal_records[k] = None /\ ~StageCalled(k)

\* The control point right after the call for attribute number n of a list
\* of length len in phase p.
AfterItem(p, n, len) ==
  IF n < len THEN pc = p /\ i = n + 1
             ELSE pc = NextPhase(p) /\ i = 1

\* C5: a 409 answer to an attribute-creation call is reported as "already
\* exists", not as failed, and the loop goes on: the process stands at the
\* next attribute, or at the next phase after the last attribute.
C5_AttributeConflictIsSuccess ==
  last.status = 409 /\ last.key[1] \in {"attr_company", "attr_deal"} =>
    /\ report = [key |-> last.key, line |-> "~ (already exists)"]
    /\ ~Aborted
    /\ IF last.key[1] = "attr_company"
         THEN AfterItem("attrs_company", last.key[2],
                        Len(COMPANY_CUSTOM_ATTRIBUTES))
         ELSE AfterItem("attrs_deal", last.key[2], Len(DEAL_CUSTOM_ATTRIBUTES))

\* The last deal attribute was answered with 409 and the company phase begins.
C5_Witness ==
  /\ last.status = 409
  /\ last.key = Key("attr_deal", Len(DEAL_CUSTOM_ATTRIBUTES), 0)
  /\ report.line = "~ (already exists)"
  /\ pc = "companies"

\* C6 as stated: a 409 answer to a company upsert or a deal creation is a
\* success: the item is not printed as FAILED and its entry in the list of
\* records is not None.
C6_RecordConflictIsSuccess ==
  /\ last.status = 409 /\ last.key[1] = "company" =>
       /\ report.line # "FAILED"
       /\ company_records[last.key[2]] # None
  /\ last.status = 409 /\ last.key[1] = "deal" =>
       /\ report.line # "FAILED"
       /\ deal_records[last.key[2]] # None
AllKinds == {"attr_company", "attr_deal", "company", "person", "deal", "stage"}

\* Every attribute creation, company upsert and deal creation has been called.
AllAttempted ==
  /\ \A k \in DOMAIN COMPANY_CUSTOM_ATTRIBUTES :
       Key("attr_company", k, 0) \in BagToSet(calls)
  /\ \A k \in DOMAIN DEAL_CUSTOM_ATTRIBUTES :
       Key("attr_deal", k, 0) \in BagToSet(calls)
  /\ \A k \in DOMAIN Companies : Key("company", k, 0) \in BagToSet(calls)
  /\ AllDealsCalled

\* C7: whatever the remote answers after the pre-flight checks, the run does
\* not abort: a process that exited non-zero did so at the module level, in
\* the validation or on a failed connectivity check, before any call of the
\* four phases; a process in one of the phases always has a next step; and
\* a process that has ended has attempted every attribute, every company
\* and every deal, has written this run's mapping file, has printed the
\* summary and has exit status 0.
C7_RunCompletesDespiteFailures ==
  /\ Aborted =>
       /\ Called(AllKinds) = {}
       /\ last.key = Key("self", 0, 0) => PreflightFailed
  /\ pc \notin {"load", "validate", "preflight", "exited"} => ENABLED Next
  /\ pc = "exited" /\ Called(AllKinds) # {} =>
       /\ exit_code = 0
       /\ AllAttempted
       /\ mapping.run = run
       /\ mapping.total_companies = Len(Present(company_records))
       /\ report.line = "SEED COMPLETE"

\* A run that ended with status 0 although a company upsert had failed.
C7_Witness ==
  /\ Finished
  /\ fail_budget < MaxFail
  /\ mapping.run = run
  /\ mapping.total_companies = 49

\* A status or outcome for which api_call returns None.
IsFailure(status) == status \notin {200, 201, 409}

\* C8: within a run api_call is invoked at most once for each attribute,
\* company, executive, deal creation and deal stage update, and after a
\* failed call the process does not stand at the same item again.
C8_NoRetries ==
  /\ \A k \in BagToSet(calls) : CopiesIn(k, calls) = 1
  /\ last.key # NoKey /\ IsFailure(last.status) => PendingKey # last.key

\* A company upsert failed and the process went on to the next company.
C8_Witness ==
  /\ last.key[1] = "company"
  /\ IsFailure(last.status)
  /\ pc = "companies"
  /\ PendingKey = Key("company", last.key[2] + 1, 0)
  /\ CopiesIn(last.key, calls) = 1

\* C9: every request is sent at least RATE_LIMIT_DELAY after the request
\* before it, and the first one that long after the start of the process.
C9_DelayBeforeEveryRequest ==
  last.key # NoKey => last.sent_at - last.prev_sent_at >= RATE_LIMIT_DELAY

\* A stage update sent RATE_LIMIT_DELAY after the creation call.
C9_Witness ==
  /\ last.req.method = "PATCH"
  /\ last.sent_at = last.prev_sent_at + RATE_LIMIT_DELAY
\* The records of one object in a workspace.
RecordsOf(rem, object) == { r \in rem.records : r.object = object }

MatchValues(records) == { r.match : r \in records }

Domains == { COMPANIES[k].domain : k \in DOMAIN COMPANIES }

Emails ==
  { COMPANIES[k].ceo : k \in DOMAIN COMPANIES }
    \cup { COMPANIES[k].exec2 : k \in DOMAIN COMPANIES }

\* C10: against a workspace that upserts by matching attribute, with every
\* call succeeding: no two company records have the same domain and no two
\* person records the same e-mail address, at any time; during and after a
\* second (or later) run the company and person records are those the run
\* before left; and after each complete run there is a company record for
\* each of the 50 domains and a person record for each of the 100 e-mail
\* addresses.
C10_UpsertIdempotent ==
  /\ \A object \in {"companies", "people"} :
       Cardinality(MatchValues(RecordsOf(remote, object)))
         = Cardinality(RecordsOf(remote, object))
  /\ run >= 2 =>
       /\ RecordsOf(remote, "companies") = RecordsOf(prev_remote, "companies")
       /\ RecordsOf(remote, "people") = RecordsOf(prev_remote, "people")
  /\ Finished =>
       /\ MatchValues(RecordsOf(remote, "companies")) = Domains
       /\ MatchValues(RecordsOf(remote, "people")) = Emails

\* The second run is complete: still 50 companies and 100 people, although
\* the workspace is one that does duplicate what is created twice (it holds
\* two records for each deal).
C10_Witness ==
  /\ run = 2
  /\ Finished
  /\ Cardinality(RecordsOf(remote, "companies")) = 50
  /\ Cardinality(RecordsOf(remote, "people")) = 100
  /\ Cardinality(RecordsOf(remote, "deals")) = 100
  /\ Cardinality(RecordsOf(prev_remote, "deals")) = 50
(***************************************************************************)
\* The deal records of a workspace that carry the name of one DEALS entry.
DealsNamed(rem, name) == { r \in RecordsOf(rem, "deals") : r.match = name }

\* C11: against a workspace that keeps what it is sent, with every call
\* succeeding: each deal call is a plain create (POST on the records path of
\* deals, no matching attribute), and after the n-th complete run the
\* workspace holds n records for every entry of DEALS, 50 * n in all: two of
\* each after the second run.
C11_DealsDuplicateOnRerun ==
  /\ last.key[1] = "deal" =>
       /\ last.req.method = "POST"
       /\ last.req.path = "/objects/deals/records"
       /\ last.req.path \notin UpsertPaths
  /\ Finished =>
       /\ \A k \in DOMAIN DEALS :
            Cardinality(DealsNamed(remote, DEALS[k].name)) = run
       /\ Cardinality(RecordsOf(remote, "deals")) = Len(DEALS) * run

\* The second run has ended and every entry of DEALS has exactly two records,
\* with different record ids.
C11_Witness ==
  /\ run = 2
  /\ Finished
  /\ \A k \in DOMAIN DEALS :
       \E r1, r2 \in DealsNamed(remote, DEALS[k].name) :
         /\ r1.record_id # r2.record_id
         /\ DealsNamed(remote, DEALS[k].name) = { r1, r2 }
(***************************************************************************)
\* The items of one kind whose call came back with a record identifier.
ReturnedItems(kind) == { r[1][2] : r \in { x \in returned : x[1][1] = kind } }

\* The record identifier the call for item k of a kind came back with.
ReturnedId(kind, k) ==
  (CHOOSE x \in returned : x[1][1] = kind /\ x[1][2] = k)[2]

\* The position in DEALS of the deal with this name (the names are distinct).
DealIndex(name) == CHOOSE k \in DOMAIN DEALS : DEALS[k].name = name

\* C12: when the mapping file has been written, its "companies" list holds,
\* in the order of COMPANIES and once each, exactly the companies whose
\* upsert came back with a record identifier in this run, each with that
\* identifier; its "deals" list likewise for DEALS and the create calls; and
\* total_companies and total_deals are the lengths of the two lists.
C12_MappingListsCreatedRecords ==
  Finished =>
    /\ Len(mapping.companies) = Cardinality(ReturnedItems("company"))
    /\ \A j \in DOMAIN mapping.companies :
         LET r == mapping.companies[j]
         IN  /\ r.idx + 1 \in ReturnedItems("company")
             /\ r.record_id = ReturnedId("company", r.idx + 1)
             /\ r.name = COMPANIES[r.idx + 1].name
             /\ \A j2 \in DOMAIN mapping.companies :
                  j < j2 => r.idx < mapping.companies[j2].idx
    /\ Len(mapping.deals) = Cardinality(ReturnedItems("deal"))
    /\ \A j \in DOMAIN mapping.deals :
         LET r == mapping.deals[j]
         IN  /\ DealIndex(r.name) \in ReturnedItems("deal")
             /\ r.record_id = ReturnedId("deal", DealIndex(r.name))
             /\ \A j2 \in DOMAIN mapping.deals :
                  j < j2 => DealIndex(r.name) < DealIndex(mapping.deals[j2].name)
    /\ mapping.total_companies = Len(mapping.companies)
    /\ mapping.total_deals = Len(mapping.deals)

\* The file has been written after a run in which one upsert or create came
\* back without a record: the item is missing from its list.
C12_Witness ==
  /\ Finished
  /\ \/ /\ Len(mapping.companies) = Len(COMPANIES) - 1
        /\ mapping.total_companies = Len(COMPANIES) - 1
        /\ Len(mapping.deals) = Len(DEALS)
     \/ /\ Len(mapping.deals) = Len(DEALS) - 1
        /\ mapping.total_deals = Len(DEALS) - 1
        /\ Len(mapping.companies) = Len(COMPANIES)
(***************************************************************************)
\* The number of calls of one kind made so far in this run.
CallsOfKind(kind) ==
  Cardinality({ k \in BagToSet(calls) : k[1] = kind })

\* C13 as stated: a full run makes 15 company-attribute creation calls and
\* 10 deal-attribute creation calls, 25 in all.  (DEAL_CUSTOM_ATTRIBUTES
\* has 11 entries, so a full run makes 11 and 26.)
C13_TenDealAttributeCalls ==
  Finished =>
    /\ CallsOfKind("attr_company") = 15
    /\ CallsOfKind("attr_deal") = 10
    /\ CallsOfKind("attr_company") + CallsOfKind("attr_deal") = 25
(***************************************************************************)
(*                     scripts/count_tokens.py                             *)
(***************************************************************************)

(***************************************************************************)
(* The texts the response files hold.  A text stands for itself; what      *)
(* json.loads makes of it and its UTF-8 length are tabulated from the      *)
(* codecs.  A JSON value is its type and its items: the elements of an     *)
(* array, the key/value pairs of an object, the characters of a string.    *)
(***************************************************************************)
JScalar(t) == [t |-> t, items |-> << >>]

JStr(cs) == [t |-> "str", items |-> cs]

JList(xs) == [t |-> "list", items |-> xs]

JDict(pairs) == [t |-> "dict", items |-> pairs]

Loaded(value) == [error |-> FALSE, value |-> value]

JSONDecodeError == [error |-> TRUE, value |-> JScalar("null")]

TEXTS ==
  { "[{\"a\":1,\"b\":2},{\"a\":3,\"b\":4}]",
    "[]",
    "[1,2,3]",
    "[null]",
    "[\"abc\",1]",
    "[[1,2,3]]",
    "{\"data\":[{\"x\":1}]}",
    "{\"data\":[]}",
    "{\"data\":{\"id\":7,\"n\":2}}",
    "{\"data\":[5]}",
    "{\"data\":null,\"x\":1}",
    "{\"x\":1,\"y\":2}",
    "{\"items\":[1,2,3]}",
    "{}",
    "\"not an object\"",
    "42",
    "null",
    "true",
    "{oops",
    "",
    "[\"café\"]" }

json_loads(content) ==
  CASE content = "[{\"a\":1,\"b\":2},{\"a\":3,\"b\":4}]" ->
         Loaded(JList(<< JDict(<< [k |-> "a", v |-> JScalar("num")], [k |-> "b", v |-> JScalar("num")] >>), JDict(<< [k |-> "a", v |-> JScalar("num")], [k |-> "b", v |-> JScalar("num")] >>) >>))
    [] content = "[]" ->
         Loaded(JList(<<  >>))
    [] content = "[1,2,3]" ->
         Loaded(JList(<< JScalar("num"), JScalar("num"), JScalar("num") >>))
    [] content = "[null]" ->
         Loaded(JList(<< JScalar("null") >>))
    [] content = "[\"abc\",1]" ->
         Loaded(JList(<< JStr(<< "a", "b", "c" >>), JScalar("num") >>))
    [] content = "[[1,2,3]]" ->
         Loaded(JList(<< JList(<< JScalar("num"), JScalar("num"), JScalar("num") >>) >>))
    [] content = "{\"data\":[{\"x\":1}]}" ->
         Loaded(JDict(<< [k |-> "data", v |-> JList(<< JDict(<< [k |-> "x", v |-> JScalar("num")] >>) >>)] >>))
    [] content = "{\"data\":[]}" ->
         Loaded(JDict(<< [k |-> "data", v |-> JList(<<  >>)] >>))
    [] content = "{\"data\":{\"id\":7,\"n\":2}}" ->
         Loaded(JDict(<< [k |-> "data", v |-> JDict(<< [k |-> "id", v |-> JScalar("num")], [k |-> "n", v |-> JScalar("num")] >>)] >>))
    [] content = "{\"data\":[5]}" ->
         Loaded(JDict(<< [k |-> "data", v |-> JList(<< JScalar("num") >>)] >>))
    [] content = "{\"data\":null,\"x\":1}" ->
         Loaded(JDict(<< [k |-> "data", v |-> JScalar("null")], [k |-> "x", v |-> JScalar("num")] >>))
    [] content = "{\"x\":1,\"y\":2}" ->
         Loaded(JDict(<< [k |-> "x", v |-> JScalar("num")], [k |-> "y", v |-> JScalar("num")] >>))
    [] content = "{\"items\":[1,2,3]}" ->
         Loaded(JDict(<< [k |-> "items", v |-> JList(<< JScalar("num"), JScalar("num"), JScalar("num") >>)] >>))
    [] content = "{}" ->
         Loaded(JDict(<<  >>))
    [] content = "\"not an object\"" ->
         Loaded(JStr(<< "n", "o", "t", " ", "a", "n", " ", "o", "b", "j", "e", "c", "t" >>))
    [] content = "42" ->
         Loaded(JScalar("num"))
    [] content = "null" ->
         Loaded(JScalar("null"))
    [] content = "true" ->
         Loaded(JScalar("bool"))
    [] content = "{oops" -> JSONDecodeError
    [] content = "" -> JSONDecodeError
    [] content = "[\"café\"]" ->
         Loaded(JList(<< JStr(<< "c", "a", "f", "é" >>) >>))

\* len(content.encode("utf-8"))
Utf8Len(content) ==
  CASE content = "[{\"a\":1,\"b\":2},{\"a\":3,\"b\":4}]" -> 29
    [] content = "[]" -> 2
    [] content = "[1,2,3]" -> 7
    [] content = "[null]" -> 6
    [] content = "[\"abc\",1]" -> 9
    [] content = "[[1,2,3]]" -> 9
    [] content = "{\"data\":[{\"x\":1}]}" -> 18
    [] content = "{\"data\":[]}" -> 11
    [] content = "{\"data\":{\"id\":7,\"n\":2}}" -> 23
    [] content = "{\"data\":[5]}" -> 12
    [] content = "{\"data\":null,\"x\":1}" -> 19
    [] content = "{\"x\":1,\"y\":2}" -> 13
    [] content = "{\"items\":[1,2,3]}" -> 17
    [] content = "{}" -> 2
    [] content = "\"not an object\"" -> 15
    [] content = "42" -> 2
    [] content = "null" -> 4
    [] content = "true" -> 4
    [] content = "{oops" -> 5
    [] content = "" -> 0
    [] content = "[\"café\"]" -> 9

\* count_tokens(text): len(enc.encode(text)).  The encoder is not part of
\* the repository; it is taken as a fixed function of the text alone, about
\* four bytes to a token, no token for the empty text.
count_tokens(text) == (Utf8Len(text) + 3) \div 4

(***************************************************************************)
(* main(), lines 56-72: records and fields from the shape of the JSON.     *)
(***************************************************************************)
Counts(records, fields) == [records |-> records, fields |-> fields]

\* len(x) raises TypeError for a number, a boolean and null
Sized(x) == x.t \in {"list", "dict", "str"}

\* "data" in data
HasKey(data, key) == \E j \in DOMAIN data.items : data.items[j].k = key

\* data["data"]
Get(data, key) ==
  data.items[CHOOSE j \in DOMAIN data.items : data.items[j].k = key].v

\* Mutant: the TypeError of len(data[0]) leaves records as line 59 set it.
ArrayCounts_keepsLength(data) ==
  IF data.items = << >>
    THEN Counts(Len(data.items), 0)
  ELSE IF Sized(data.items[1])
    THEN Counts(Len(data.items), Len(data.items[1].items))
  ELSE Counts(Len(data.items), 0)

\* lines 58-60 and 70-72: records = len(data); fields = len(data[0]) if
\* data else 0; the TypeError of len(data[0]) resets both to 0.
ArrayCounts(data) ==
  IF data.items = << >>
    THEN Counts(Len(data.items), 0)
  ELSE IF Sized(data.items[1])
    THEN Counts(Len(data.items), Len(data.items[1].items))
  ELSE Counts(0, 0)

\* Mutant: a "data" value that is not an array counts as no record.
DataCounts_arrayOnly(data) ==
  LET inner == Get(data, "data")
  IN  IF inner.t # "list"
        THEN Counts(0, 0)
      ELSE IF inner.items = << >>
        THEN Counts(Len(inner.items), 0)
      ELSE IF Sized(inner.items[1])
        THEN Counts(Len(inner.items), Len(inner.items[1].items))
      ELSE Counts(0, 0)

\* lines 61-63 and 70-72
DataCounts(data) ==
  LET inner == Get(data, "data")
  IN  IF inner.t # "list"
        THEN Counts(1, 0)
      ELSE IF inner.items = << >>
        THEN Counts(Len(inner.items), 0)
      ELSE IF Sized(inner.items[1])
        THEN Counts(Len(inner.items), Len(inner.items[1].items))
      ELSE Counts(0, 0)

\* Mutant: a plain mapping is measured like an array of one record, by its
\* first value.
MappingCounts_firstValue(data) ==
  IF data.items = << >>
    THEN Counts(1, 0)
  ELSE IF Sized(data.items[1].v)
    THEN Counts(1, Len(data.items[1].v.items))
  ELSE Counts(1, 0)

\* lines 64-66
MappingCounts(data) == Counts(1, Len(data.items))

\* Mutant: a text that is not JSON counts as one record without fields.
shape_counts_opaque(content) ==
  LET loaded == json_loads(content)
      data   == loaded.value
  IN  IF loaded.error THEN Counts(1, 0)
      ELSE IF data.t = "list" THEN ArrayCounts(data)
      ELSE IF data.t = "dict" /\ HasKey(data, "data") THEN DataCounts(data)
      ELSE IF data.t = "dict" THEN MappingCounts(data)
      ELSE Counts(0, 0)

\* The try block as a whole, lines 56-72.
shape_counts(content) ==
  LET loaded == json_loads(content)
      data   == loaded.value
  IN  IF loaded.error THEN Counts(0, 0)
      ELSE IF data.t = "list" THEN ArrayCounts(data)
      ELSE IF data.t = "dict" /\ HasKey(data, "data") THEN DataCounts(data)
      ELSE IF data.t = "dict" THEN MappingCounts(data)
      ELSE Counts(0, 0)
(***************************************************************************)
(* Names and paths are sequences of characters.  sorted() orders Path      *)
(* objects of one directory, and strings, by code point.                   *)
(***************************************************************************)
Code(c) ==
  CASE c = "\n" -> 10 [] c = "\r" -> 13 [] c = "\"" -> 34 [] c = "," -> 44
    [] c = "-" -> 45 [] c = "." -> 46 [] c = "/" -> 47
    [] c = "0" -> 48 [] c = "1" -> 49 [] c = "2" -> 50 [] c = "3" -> 51
    [] c = "4" -> 52 [] c = "5" -> 53 [] c = "6" -> 54 [] c = "7" -> 55
    [] c = "8" -> 56 [] c = "9" -> 57
    [] c = "_" -> 95
    [] c = "a" -> 97 [] c = "b" -> 98 [] c = "c" -> 99 [] c = "d" -> 100
    [] c = "e" -> 101 [] c = "f" -> 102 [] c = "h" -> 104 [] c = "i" -> 105
    [] c = "j" -> 106 [] c = "k" -> 107 [] c = "l" -> 108 [] c = "m" -> 109
    [] c = "n" -> 110 [] c = "o" -> 111 [] c = "p" -> 112 [] c = "q" -> 113
    [] c = "r" -> 114 [] c = "s" -> 115 [] c = "t" -> 116 [] c = "w" -> 119
    [] c = "y" -> 121

RECURSIVE LexLess(_, _)
LexLess(a, b) ==
  IF b = << >> THEN FALSE
  ELSE IF a = << >> THEN TRUE
  ELSE IF a[1] = b[1] THEN LexLess(Tail(a), Tail(b))
  ELSE Code(a[1]) < Code(b[1])

\* sorted(names)
RECURSIVE SortNames(_)
SortNames(names) ==
  IF names = {} THEN << >>
  ELSE LET m == CHOOSE x \in names : \A y \in names \ {x} : LexLess(x, y)
       IN  << m >> \o SortNames(names \ {m})

\* sorted(directory listing): the entries by name
SortByName(entries) ==
  LET order == SortNames({ x.name : x \in entries })
  IN  [k \in DOMAIN order |-> CHOOSE x \in entries : x.name = order[k]]

\* Path.glob("*.json")
MatchesJson(name) ==
  /\ Len(name) >= 5
  /\ SubSeq(name, Len(name) - 4, Len(name)) = << ".", "j", "s", "o", "n" >>

\* Path.stem: the name without its last suffix
LastDot(name) ==
  IF \E j \in DOMAIN name : name[j] = "."
    THEN CHOOSE j \in DOMAIN name :
           name[j] = "." /\ \A j2 \in DOMAIN name : name[j2] = "." => j2 <= j
    ELSE 0

Stem(name) ==
  IF LastDot(name) > 1 /\ LastDot(name) < Len(name)
    THEN SubSeq(name, 1, LastDot(name) - 1)
    ELSE name

(***************************************************************************)
(* The directory tree the reporter reads.  An entry of the root is a       *)
(* directory with its files or a plain file; a file has a name and a       *)
(* document: a text, or bytes that cannot be read as text.                 *)
(***************************************************************************)
Doc(text) == [readable |-> TRUE, text |-> text]

Unreadable == [readable |-> FALSE, text |-> ""]

File(name, doc) == [name |-> name, doc |-> doc]

Dir(name, files) == [name |-> name, is_dir |-> TRUE, files |-> files]

RootFile(name) == [name |-> name, is_dir |-> FALSE, files |-> {}]

Docs == { Doc(text) : text \in TEXTS } \cup { Unreadable }

DocsFew ==
  { Doc("[{\"a\":1,\"b\":2},{\"a\":3,\"b\":4}]"), Doc("{oops"), Doc(""),
    Unreadable }

\* Two toolkits with a scenario in common, the reserved directory with a
\* response of its own, a file beside the directories, and a file that is
\* no response.
TwoToolkits(d1, d2, d3) ==
  { Dir(<< "a", "r", "c" >>, { File(<< "q", "1", ".", "j", "s", "o", "n" >>, d1), File(<< "q", "2", ".", "j", "s", "o", "n" >>, d2),
                   File(<< "r", "e", "a", "d", "m", "e", ".", "m", "d" >>, Doc("42")) }),
    Dir(<< "c", "o", "m" >>, { File(<< "q", "1", ".", "j", "s", "o", "n" >>, d3) }),
    Dir(<< "s", "c", "h", "e", "m", "a", "s" >>, { File(<< "q", "1", ".", "j", "s", "o", "n" >>, Doc("{}")) }),
    RootFile(<< "n", "o", "t", "e", "s", ".", "j", "s", "o", "n" >>) }

\* A toolkit and a scenario whose names need quoting in a CSV.
OddNames(d1) ==
  { Dir(<< "a", ",", "b" >>, { File(<< "q", "\"", "3", ".", "j", "s", "o", "n" >>, d1), File(<< "q", ".", "4", ".", "j", "s", "o", "n" >>, Doc("[]")) }),
    Dir(<< "s", "c", "h", "e", "m", "a", "s" >>, { }) }

\* Listings without a response file.
NoResponses ==
  { { },
    { Dir(<< "s", "c", "h", "e", "m", "a", "s" >>, { File(<< "q", "1", ".", "j", "s", "o", "n" >>, Doc("{}")) }),
      RootFile(<< "n", "o", "t", "e", "s", ".", "j", "s", "o", "n" >>) },
    { Dir(<< "a", "r", "c" >>, { File(<< "r", "e", "a", "d", "m", "e", ".", "m", "d" >>, Doc("42")) }) } }

\* Two response files of one toolkit with the same stem: .json has no
\* suffix to drop, .json.json drops its last one.
DotNames(d1) ==
  { Dir(<< "a", "r", "c" >>, { File(<< ".", "j", "s", "o", "n" >>, d1), File(<< ".", "j", "s", "o", "n", ".", "j", "s", "o", "n" >>, Doc("[]")) }),
    Dir(<< "c", "o", "m" >>, { File(<< "q", "1", ".", "j", "s", "o", "n" >>, Doc("{}")) }) }

Listings ==
  { TwoToolkits(d1, d2, d3) : d1 \in Docs, d2 \in DocsFew, d3 \in DocsFew }
    \cup { OddNames(d1) : d1 \in DocsFew }
    \cup { DotNames(d1) : d1 \in DocsFew }
    \cup NoResponses

\* What stands at data/raw and at raw.
Decoy == { Dir(<< "o", "l", "d" >>, { File(<< "q", "9", ".", "j", "s", "o", "n" >>, Doc("42")) }) }

Trees ==
  { [data_raw |-> Some(l), raw |-> None] : l \in Listings }
    \cup { [data_raw |-> None, raw |-> Some(l)] : l \in Listings }
    \cup { [data_raw |-> Some(l), raw |-> Some(Decoy)] : l \in Listings }
    \cup { NoTree }
(***************************************************************************)
(* main(), lines 29-39: the directory to read.                             *)
(***************************************************************************)
ReporterExit(code) ==
  /\ reporter_pc' = "exited"
  /\ reporter_exit' = code

FindDataDir ==
  /\ reporter_pc = "start"
  /\ IF tree.data_raw # None
       THEN /\ data_dir' = "data/raw"
            /\ reporter_pc' = "scan"
            /\ UNCHANGED << reporter_exit, stdout >>
     ELSE IF tree.raw # None
       THEN /\ data_dir' = "raw"
            /\ reporter_pc' = "scan"
            /\ UNCHANGED << reporter_exit, stdout >>
     ELSE /\ stdout' = [stdout EXCEPT !.error = "No raw data directory found"]
          /\ ReporterExit(1)
          /\ UNCHANGED data_dir
  /\ UNCHANGED << tree, csv_files, entry_idx, file_idx, results >>

(***************************************************************************)
(* main(), lines 43-82: the scan.                                          *)
(***************************************************************************)
\* data_dir.iterdir()
Listing ==
  IF data_dir = "data/raw" THEN tree.data_raw[1]
  ELSE IF data_dir = "raw" THEN tree.raw[1]
  ELSE { }

\* sorted(data_dir.iterdir())
Entries == SortByName(Listing)

\* Mutant: every directory is a toolkit.
IsToolkit_anyDir(entry) == entry.is_dir

\* line 44, negated
IsToolkit(entry) == entry.is_dir /\ entry.name # << "s", "c", "h", "e", "m", "a", "s" >>

\* sorted(toolkit_dir.glob("*.json"))
ResponseFiles(entry) ==
  SortByName({ x \in entry.files : MatchesJson(x.name) })

\* str(response_file.relative_to(data_dir.parent))
RelativePath(toolkit, name) == << "r", "a", "w", "/" >> \o toolkit \o << "/" >> \o name

\* Mutant: the sizes are taken inside the try block, after the parsing, so
\* that a text that is not JSON has none.
Row_sizesAfterParsing(toolkit, name, content) ==
  [scenario |-> Stem(name),
   toolkit |-> toolkit,
   tokens |-> IF json_loads(content).error THEN 0 ELSE count_tokens(content),
   bytes |-> IF json_loads(content).error THEN 0 ELSE Utf8Len(content),
   records |-> shape_counts(content).records,
   fields_per_record |-> shape_counts(content).fields,
   file |-> RelativePath(toolkit, name)]

\* lines 52-53 and 56-82: the row of one response file
Row(toolkit, name, content) ==
  [scenario |-> Stem(name),
   toolkit |-> toolkit,
   tokens |-> count_tokens(content),
   bytes |-> Utf8Len(content),
   records |-> shape_counts(content).records,
   fields_per_record |-> shape_counts(content).fields,
   file |-> RelativePath(toolkit, name)]

\* lines 44-45: continue
SkipEntry ==
  /\ reporter_pc = "scan"
  /\ entry_idx <= Len(Entries)
  /\ ~IsToolkit(Entries[entry_idx])
  /\ entry_idx' = entry_idx + 1
  /\ UNCHANGED << tree, csv_files, reporter_pc, reporter_exit, data_dir,
                  file_idx, results, stdout >>

\* lines 48-82: one response file.  open() and read() are outside the try:
\* a file that cannot be read ends the process with the exception.
ScanFile ==
  /\ reporter_pc = "scan"
  /\ entry_idx <= Len(Entries)
  /\ IsToolkit(Entries[entry_idx])
  /\ file_idx <= Len(ResponseFiles(Entries[entry_idx]))
  /\ LET toolkit_dir   == Entries[entry_idx]
         response_file == ResponseFiles(toolkit_dir)[file_idx]
     IN  IF response_file.doc.readable
           THEN /\ results' = Append(results,
                                     Row(toolkit_dir.name, response_file.name,
                                         response_file.doc.text))
                /\ file_idx' = file_idx + 1
                /\ UNCHANGED << reporter_pc, reporter_exit, stdout >>
           ELSE /\ stdout' = [stdout EXCEPT !.error = "Traceback"]
                /\ ReporterExit(1)
                /\ UNCHANGED << results, file_idx >>
  /\ UNCHANGED << tree, csv_files, data_dir, entry_idx >>

\* line 48: the files of this toolkit are done; line 43: the next entry
LeaveToolkit ==
  /\ reporter_pc = "scan"
  /\ entry_idx <= Len(Entries)
  /\ IsToolkit(Entries[entry_idx])
  /\ file_idx > Len(ResponseFiles(Entries[entry_idx]))
  /\ entry_idx' = entry_idx + 1
  /\ file_idx' = 1
  /\ UNCHANGED << tree, csv_files, reporter_pc, reporter_exit, data_dir,
                  results, stdout >>

\* Mutant: the reporter goes on to the report with whatever it has.
EndScan_noCheck ==
  /\ reporter_pc = "scan"
  /\ entry_idx > Len(Entries)
  /\ reporter_pc' = "report"
  /\ UNCHANGED << reporter_exit, stdout >>
  /\ UNCHANGED << tree, csv_files, data_dir, entry_idx, file_idx, results >>

\* lines 84-86
EndScan ==
  /\ reporter_pc = "scan"
  /\ entry_idx > Len(Entries)
  /\ IF results = << >>
       THEN /\ stdout' = [stdout EXCEPT !.error = "No JSON files found"]
            /\ ReporterExit(1)
       ELSE /\ reporter_pc' = "report"
            /\ UNCHANGED << reporter_exit, stdout >>
  /\ UNCHANGED << tree, csv_files, data_dir, entry_idx, file_idx, results >>

(***************************************************************************)
(* main(), lines 88-124: the table and the comparison.                     *)
(***************************************************************************)
\* lines 96-97
Scenarios(rs) == SortNames({ rs[k].scenario : k \in DOMAIN rs })

Toolkits(rs) == SortNames({ rs[k].toolkit : k \in DOMAIN rs })

\* line 110
Match(rs, scenario, toolkit) ==
  SelectSeq(rs, LAMBDA r : r.scenario = scenario /\ r.toolkit = toolkit)

\* Mutant: the cell shows the last result that matches.
Cell_lastMatch(rs, scenario, toolkit) ==
  IF Match(rs, scenario, toolkit) # << >>
    THEN Some(Match(rs, scenario, toolkit)
                [Len(Match(rs, scenario, toolkit))].tokens)
    ELSE None

\* lines 111-115: the token count or the placeholder
Cell(rs, scenario, toolkit) ==
  IF Match(rs, scenario, toolkit) # << >>
    THEN Some(Match(rs, scenario, toolkit)[1].tokens)
    ELSE None

\* token_counts.values()
TokenCounts(rs, scenario) ==
  { Cell(rs, scenario, Toolkits(rs)[k])[1] :
      k \in { k2 \in DOMAIN Toolkits(rs) :
                Cell(rs, scenario, Toolkits(rs)[k2]) # None } }

Max(S) == CHOOSE x \in S : \A y \in S : y <= x

Min(S) == CHOOSE x \in S : \A y \in S : x <= y

\* len(token_counts)
CountOf(rs, scenario) ==
  Cardinality({ k \in DOMAIN Toolkits(rs) :
                  Cell(rs, scenario, Toolkits(rs)[k]) # None })

\* f"{max_t/min_t:>9.1f}": the quotient to one decimal, in tenths.  The
\* format rounds the double to the nearest tenth, and a double that lies
\* half way to the even one; with token counts up to 16 every quotient
\* that lies half way is a multiple of a quarter, which the double holds
\* exactly.
OneDecimal(max_t, min_t) ==
  LET q == (10 * max_t) \div min_t
      r == (10 * max_t) % min_t
  IN  IF 2 * r < min_t THEN q
      ELSE IF 2 * r > min_t THEN q + 1
      ELSE IF q % 2 = 0 THEN q ELSE q + 1

\* Mutant: the ratio is printed as soon as one toolkit has the scenario.
Ratio_oneToolkit(rs, scenario) ==
  IF CountOf(rs, scenario) >= 1 /\ Min(TokenCounts(rs, scenario)) > 0
    THEN Some(OneDecimal(Max(TokenCounts(rs, scenario)),
                         Min(TokenCounts(rs, scenario))))
    ELSE None

\* lines 119-123: the ratio column, in tenths, or nothing
Ratio(rs, scenario) ==
  IF CountOf(rs, scenario) >= 2 /\ Min(TokenCounts(rs, scenario)) > 0
    THEN Some(OneDecimal(Max(TokenCounts(rs, scenario)),
                         Min(TokenCounts(rs, scenario))))
    ELSE None

Comparison(rs) ==
  [k \in DOMAIN Scenarios(rs) |->
     [scenario |-> Scenarios(rs)[k],
      cells |-> [t \in DOMAIN Toolkits(rs) |->
                   Cell(rs, Scenarios(rs)[k], Toolkits(rs)[t])],
      ratio |-> Ratio(rs, Scenarios(rs)[k])]]

\* line 93: the columns of the detailed table
TableRow(r) ==
  [scenario |-> r.scenario, toolkit |-> r.toolkit, tokens |-> r.tokens,
   bytes |-> r.bytes, records |-> r.records]

PrintReport ==
  /\ reporter_pc = "report"
  /\ stdout' = [stdout EXCEPT
                  !.table = [k \in DOMAIN results |-> TableRow(results[k])],
                  !.columns = Toolkits(results),
                  !.comparison = Comparison(results)]
  /\ reporter_pc' = "export"
  /\ UNCHANGED << tree, csv_files, reporter_exit, data_dir, entry_idx,
                  file_idx, results >>

(***************************************************************************)
(* main(), lines 126-133: the CSV, as csv.DictWriter writes it (excel      *)
(* dialect: comma, double quote, minimal quoting, CR LF).                  *)
(***************************************************************************)
FIELDNAMES ==
  << << "s", "c", "e", "n", "a", "r", "i", "o" >>,
     << "t", "o", "o", "l", "k", "i", "t" >>,
     << "t", "o", "k", "e", "n", "s" >>,
     << "b", "y", "t", "e", "s" >>,
     << "r", "e", "c", "o", "r", "d", "s" >>,
     << "f", "i", "e", "l", "d", "s", "_", "p", "e", "r", "_", "r", "e", "c", "o", "r", "d" >>,
     << "f", "i", "l", "e" >> >>

Digit(k) ==
  CASE k = 0 -> "0" [] k = 1 -> "1" [] k = 2 -> "2" [] k = 3 -> "3"
    [] k = 4 -> "4" [] k = 5 -> "5" [] k = 6 -> "6" [] k = 7 -> "7"
    [] k = 8 -> "8" [] k = 9 -> "9"

\* str(n) for n >= 0
RECURSIVE Str(_)
Str(n) == IF n < 10 THEN << Digit(n) >> ELSE Str(n \div 10) \o << Digit(n % 10) >>

\* The values of a row in the order of fieldnames, as text.
RowFields(r) ==
  << r.scenario, r.toolkit, Str(r.tokens), Str(r.bytes), Str(r.records),
     Str(r.fields_per_record), r.file >>

NeedsQuote(field) ==
  \E j \in DOMAIN field : field[j] \in { ",", "\"", "\r", "\n" }

RECURSIVE DoubleQuotes(_)
DoubleQuotes(field) ==
  IF field = << >> THEN << >>
  ELSE (IF field[1] = "\"" THEN << "\"", "\"" >> ELSE << field[1] >>)
         \o DoubleQuotes(Tail(field))

\* Mutant: the writer puts every field down as it is.
CsvField_raw(field) == field

CsvField(field) ==
  IF NeedsQuote(field)
    THEN << "\"" >> \o DoubleQuotes(field) \o << "\"" >>
    ELSE field

RECURSIVE JoinFields(_)
JoinFields(fields) ==
  IF Len(fields) = 1 THEN CsvField(fields[1])
  ELSE CsvField(fields[1]) \o << "," >> \o JoinFields(Tail(fields))

CsvLine(fields) == JoinFields(fields) \o << "\r", "\n" >>

RECURSIVE CsvLines(_)
CsvLines(rs) ==
  IF rs = << >> THEN << >>
  ELSE CsvLine(RowFields(rs[1])) \o CsvLines(Tail(rs))

\* writeheader(); writerows(results)
CsvText(rs) == CsvLine(FIELDNAMES) \o CsvLines(rs)

\* data_dir.parent / "token-counts-verified.csv"
CsvPath == IF data_dir = "data/raw" THEN "data" ELSE "base"

\* open(csv_path, "w") truncates what is there
WriteCsv ==
  /\ reporter_pc = "export"
  /\ csv_files' = [csv_files EXCEPT ![CsvPath] = Some(CsvText(results))]
  /\ stdout' = [stdout EXCEPT !.csv_path = CsvPath]
  /\ ReporterExit(0)
  /\ UNCHANGED << tree, data_dir, entry_idx, file_idx, results >>

(***************************************************************************)
(* The reporter run once on a tree, with or without a CSV of an earlier    *)
(* run at both destinations.                                               *)
(***************************************************************************)
StaleCsv ==
  CsvText(<< [scenario |-> << "q", "0" >>, toolkit |-> << "o", "l", "d" >>, tokens |-> 7,
              bytes |-> 28, records |-> 1, fields_per_record |-> 3,
              file |-> << "r", "a", "w", "/", "o", "l", "d", "/", "q", "0", ".", "j", "s", "o", "n" >>] >>)

CsvBefore ==
  { NoCsv, [data |-> Some(StaleCsv), base |-> Some(StaleCsv)] }

InitReport ==
  /\ api_key = TRUE
  /\ dataset = "bundled"
  /\ ProcessStart
  /\ mapping = NoMapping
  /\ fail_budget = MaxFail
  /\ run = 1
  /\ remote = EmptyRemote
  /\ prev_remote = EmptyRemote
  /\ tree \in Trees
  /\ csv_files \in CsvBefore
  /\ ReporterStart

NextReport ==
  \/ FindDataDir /\ UNCHANGED seed_vars
  \/ SkipEntry /\ UNCHANGED seed_vars
  \/ ScanFile /\ UNCHANGED seed_vars
  \/ LeaveToolkit /\ UNCHANGED seed_vars
  \/ EndScan /\ UNCHANGED seed_vars
  \/ PrintReport /\ UNCHANGED seed_vars
  \/ WriteCsv /\ UNCHANGED seed_vars

SpecReport == InitReport /\ [][NextReport]_vars
(***************************************************************************)
(* Properties of the reporter.                                             *)
(***************************************************************************)
ReporterDone == reporter_pc = "exited" /\ reporter_exit = 0

\* The response file a row was made from, found by the path in the row.
SourceOf(r) ==
  CHOOSE src \in { [toolkit |-> x.name, file |-> y] :
                     x \in Listing, y \in UNION { z.files : z \in Listing } } :
    /\ \E x \in Listing : x.name = src.toolkit /\ src.file \in x.files
    /\ RelativePath(src.toolkit, src.file.name) = r.file

\* What json.loads makes of the text a row was made from.
ParsedOf(r) == json_loads(SourceOf(r).file.doc.text)

\* The rows made from a text whose JSON value is of the given type.
RowsOfType(t) ==
  { k \in DOMAIN results : ~ParsedOf(results[k]).error
                           /\ ParsedOf(results[k]).value.t = t }

\* A sequence whose first element has no size: a number, a boolean, null.
Unmeasurable(x) ==
  x.t = "list" /\ x.items # << >> /\ ~Sized(x.items[1])

\* C14 as stated: the row of every document that is a JSON array has
\* records = the length of the array and fields = the size of its first
\* element, 0 for the empty array.
C14_ArrayRecordsAreLength ==
  \A k \in RowsOfType("list") :
    LET data == ParsedOf(results[k]).value
    IN  /\ results[k].records = Len(data.items)
        /\ data.items = << >> => results[k].fields_per_record = 0
        /\ data.items # << >> /\ Sized(data.items[1]) =>
             results[k].fields_per_record = Len(data.items[1].items)

\* C14, amended: the row of a document that is a JSON array has records =
\* the length of the array and fields = the size of its first element when
\* that element is an object, an array or a string; records = 0 and
\* fields = 0 when the array is empty; and records = 0 and fields = 0 when
\* the first element is a number, a boolean or null.
C14_ArrayCountsWhenMeasurable ==
  \A k \in RowsOfType("list") :
    LET data == ParsedOf(results[k]).value
    IN  /\ data.items = << >> =>
             results[k].records = 0 /\ results[k].fields_per_record = 0
        /\ data.items # << >> /\ Sized(data.items[1]) =>
             /\ results[k].records = Len(data.items)
             /\ results[k].fields_per_record = Len(data.items[1].items)
        /\ Unmeasurable(data) =>
             results[k].records = 0 /\ results[k].fields_per_record = 0

\* The array of two 2-key objects has been scanned: records 2, fields 2;
\* so has an array of numbers.
C14_Witness ==
  /\ \E k \in DOMAIN results :
       /\ SourceOf(results[k]).file.doc.text
            = "[{\"a\":1,\"b\":2},{\"a\":3,\"b\":4}]"
       /\ results[k].records = 2
       /\ results[k].fields_per_record = 2
  /\ \E k \in RowsOfType("list") : Unmeasurable(ParsedOf(results[k]).value)

\* The rows made from an object with a "data" key.
DataRows == { k \in RowsOfType("dict") : HasKey(ParsedOf(results[k]).value, "data") }

\* C15 as stated: the row of every document that is an object with a "data"
\* key has records = the length of the "data" value when that is an array
\* and 1 when it is not, and fields = the size of the first element of the
\* array, 0 when the array is empty or "data" is not an array.
C15_DataRecordsAreLength ==
  \A k \in DataRows :
    LET inner == Get(ParsedOf(results[k]).value, "data")
    IN  /\ results[k].records = IF inner.t = "list" THEN Len(inner.items) ELSE 1
        /\ inner.t # "list" \/ inner.items = << >> =>
             results[k].fields_per_record = 0
        /\ inner.t = "list" /\ inner.items # << >> /\ Sized(inner.items[1]) =>
             results[k].fields_per_record = Len(inner.items[1].items)

\* C15, amended: for an object with a "data" key: "data" not an array gives
\* records = 1, fields = 0; an empty array gives 0 and 0; an array whose
\* first element is an object, an array or a string gives records = its
\* length and fields = the size of that element; an array whose first
\* element is a number, a boolean or null gives records = 0 and fields = 0.
C15_DataCountsWhenMeasurable ==
  \A k \in DataRows :
    LET inner == Get(ParsedOf(results[k]).value, "data")
    IN  /\ inner.t # "list" =>
             results[k].records = 1 /\ results[k].fields_per_record = 0
        /\ inner.t = "list" /\ inner.items = << >> =>
             results[k].records = 0 /\ results[k].fields_per_record = 0
        /\ inner.t = "list" /\ inner.items # << >> /\ Sized(inner.items[1]) =>
             /\ results[k].records = Len(inner.items)
             /\ results[k].fields_per_record = Len(inner.items[1].items)
        /\ Unmeasurable(inner) =>
             results[k].records = 0 /\ results[k].fields_per_record = 0

\* {"data":[{"x":1}]} has been scanned: records 1, fields 1.
C15_Witness ==
  \E k \in DataRows :
    /\ SourceOf(results[k]).file.doc.text = "{\"data\":[{\"x\":1}]}"
    /\ results[k].records = 1
    /\ results[k].fields_per_record = 1

\* C16: the row of every document that is an object without a "data" key
\* has records = 1 and fields = the number of its top-level keys, whatever
\* the values are.
C16_PlainMappingCounts ==
  \A k \in RowsOfType("dict") \ DataRows :
    /\ results[k].records = 1
    /\ results[k].fields_per_record = Len(ParsedOf(results[k]).value.items)

\* An object with one key whose value is an array of three has been
\* scanned: records 1, fields 1.
C16_Witness ==
  \E k \in DOMAIN results :
    /\ SourceOf(results[k]).file.doc.text = "{\"items\":[1,2,3]}"
    /\ results[k].records = 1
    /\ results[k].fields_per_record = 1
(***************************************************************************)
\* The response files of the tree in the order the scan meets them: the
\* directories other than the reserved one by name, and in each its *.json
\* files by name.
RECURSIVE FilesInOrder(_)
FilesInOrder(dirs) ==
  IF dirs = << >> THEN << >>
  ELSE LET files == SortByName({ y \in dirs[1].files : MatchesJson(y.name) })
       IN  [k \in DOMAIN files |-> [toolkit |-> dirs[1].name, file |-> files[k]]]
             \o FilesInOrder(Tail(dirs))

ScanOrder ==
  FilesInOrder(SortByName({ x \in Listing : x.is_dir /\ x.name # << "s", "c", "h", "e", "m", "a", "s" >> }))

\* The JSON value fits none of the three shapes the reporter measures.
Mismatch(parsed) ==
  \/ parsed.error
  \/ parsed.value.t \in {"str", "num", "bool", "null"}
  \/ Unmeasurable(parsed.value)
  \/ /\ parsed.value.t = "dict"
     /\ HasKey(parsed.value, "data")
     /\ Unmeasurable(Get(parsed.value, "data"))

\* C17: a readable document that is not JSON, is a top-level scalar, or is
\* an array (or a "data" array) that cannot be measured gets a row with
\* records = 0 and fields = 0; every file met so far has its row, in scan
\* order; the process ends with an exception only at a file that cannot be
\* read; and when the scan is over there is a row for every response file.
C17_BadJsonIsAbsorbed ==
  /\ \A k \in DOMAIN results :
       Mismatch(ParsedOf(results[k])) =>
         results[k].records = 0 /\ results[k].fields_per_record = 0
  /\ Len(results) <= Len(ScanOrder)
  /\ \A k \in DOMAIN results :
       results[k].file
         = RelativePath(ScanOrder[k].toolkit, ScanOrder[k].file.name)
  /\ stdout.error = "Traceback" =>
       /\ Len(results) < Len(ScanOrder)
       /\ ~ScanOrder[Len(results) + 1].file.doc.readable
  /\ reporter_pc \in {"report", "export"} \/ ReporterDone =>
       Len(results) = Len(ScanOrder)

\* A text that is not JSON has been scanned, its row has zeros, and the
\* scan went on: a later file has its row too and the run has ended well.
C17_Witness ==
  /\ ReporterDone
  /\ \E k \in DOMAIN results :
       /\ ParsedOf(results[k]).error
       /\ results[k].records = 0
       /\ results[k].fields_per_record = 0
       /\ k < Len(results)

\* C18 as stated: a response file that cannot be read does not end the run:
\* once the process has exited, every response file that can be read has
\* its row, and the rows have been reported and exported.
C18_UnreadableFileIsSkipped ==
  reporter_pc = "exited"
    /\ (\E k \in DOMAIN ScanOrder : ScanOrder[k].file.doc.readable) =>
      /\ reporter_exit = 0
      /\ \A k \in DOMAIN ScanOrder :
           ScanOrder[k].file.doc.readable =>
             \E j \in DOMAIN results :
               results[j].file
                 = RelativePath(ScanOrder[k].toolkit, ScanOrder[k].file.name)
      /\ stdout.table # << >>
      /\ csv_files[CsvPath] = Some(CsvText(results))
(***************************************************************************)
\* Reading a CSV text back, as csv.reader does with the same dialect:
\* "record" is the start of a record, "start" the start of a field after a
\* comma, "quoted" inside a quoted field, "qq" after a quote inside a
\* quoted field, "eol" after a carriage return.  A blank line gives no row.
AfterNewline(c) == IF c = "\r" THEN "eol" ELSE "record"

RECURSIVE ReadCsvFrom(_, _, _, _, _, _)
ReadCsvFrom(text, k, state, field, row, rows) ==
  IF k > Len(text)
    THEN IF state \in {"record", "eol"} THEN rows
         ELSE Append(rows, Append(row, field))
  ELSE LET c == text[k]
       IN  CASE state = "eol" ->
                  ReadCsvFrom(text, IF c = "\n" THEN k + 1 ELSE k, "record",
                              << >>, << >>, rows)
             [] state = "record" /\ c \in {"\r", "\n"} ->
                  ReadCsvFrom(text, k + 1, AfterNewline(c), << >>, << >>, rows)
             [] state = "quoted" ->
                  IF c = "\""
                    THEN ReadCsvFrom(text, k + 1, "qq", field, row, rows)
                    ELSE ReadCsvFrom(text, k + 1, "quoted", Append(field, c),
                                     row, rows)
             [] state = "qq" /\ c = "\"" ->
                  ReadCsvFrom(text, k + 1, "quoted", Append(field, c), row, rows)
             [] state \in {"record", "start"} /\ c = "\"" ->
                  ReadCsvFrom(text, k + 1, "quoted", << >>, row, rows)
             [] c = "," ->
                  ReadCsvFrom(text, k + 1, "start", << >>, Append(row, field),
                              rows)
             [] c \in {"\r", "\n"} ->
                  ReadCsvFrom(text, k + 1, AfterNewline(c), << >>, << >>,
                              Append(rows, Append(row, field)))
             [] OTHER ->
                  ReadCsvFrom(text, k + 1, "field", Append(field, c), row, rows)

ReadCsv(text) == ReadCsvFrom(text, 1, "record", << >>, << >>, << >>)

\* int(text) for a text of decimal digits
RECURSIVE ParseInt(_)
ParseInt(cs) ==
  IF cs = << >> THEN 0
  ELSE 10 * ParseInt(SubSeq(cs, 1, Len(cs) - 1))
         + (CHOOSE k \in 0..9 : Digit(k) = cs[Len(cs)])

IsNumber(cs) ==
  cs # << >> /\ \A j \in DOMAIN cs : \E k \in 0..9 : Digit(k) = cs[j]

\* A row of the CSV as a result row.
ReadRow(fields) ==
  [scenario |-> fields[1], toolkit |-> fields[2], tokens |-> ParseInt(fields[3]),
   bytes |-> ParseInt(fields[4]), records |-> ParseInt(fields[5]),
   fields_per_record |-> ParseInt(fields[6]), file |-> fields[7]]

\* The CSV at the reporter's destination.
WrittenCsv == csv_files[CsvPath][1]

\* C19: when the reporter has ended well, the CSV at its destination reads
\* back as the header scenario, toolkit, tokens, bytes, records,
\* fields_per_record, file followed by one row of seven fields for each
\* result, in the order of the results and with their values; the results
\* are the *.json files directly inside the directories other than the
\* reserved one, one row each; nothing of an earlier CSV is left in it.
C19_CsvRoundTrip ==
  ReporterDone =>
    /\ csv_files[CsvPath] # None
    /\ LET rows == ReadCsv(WrittenCsv)
       IN  /\ Len(rows) = Len(results) + 1
           /\ rows[1] = FIELDNAMES
           /\ \A k \in DOMAIN results :
                /\ Len(rows[k + 1]) = Len(FIELDNAMES)
                /\ \A n \in 3..6 : IsNumber(rows[k + 1][n])
                /\ ReadRow(rows[k + 1]) = results[k]
    /\ Len(results) = Len(ScanOrder)
    /\ \A k \in DOMAIN results :
         /\ results[k].file
              = RelativePath(ScanOrder[k].toolkit, ScanOrder[k].file.name)
         /\ results[k].toolkit = ScanOrder[k].toolkit

\* The reporter has ended well where a CSV of an earlier run was: the file
\* is another one now, and it holds a toolkit name with a comma and a
\* scenario name with a double quote.
C19_Witness ==
  /\ ReporterDone
  /\ csv_files[CsvPath] # Some(StaleCsv)
  /\ \E p \in {"data", "base"} : p # CsvPath /\ csv_files[p] = Some(StaleCsv)
  /\ \E k \in DOMAIN results :
       /\ results[k].toolkit = << "a", ",", "b" >>
       /\ results[k].scenario = << "q", "\"", "3" >>

\* C20: no result row, no column of the comparison and no row of the CSV
\* has the reserved name schemas as its toolkit, and every one of them has
\* the name of a directory of the root: the files beside the directories
\* give no row.
C20_ReservedDirectoryNeverScanned ==
  /\ \A k \in DOMAIN results :
       /\ results[k].toolkit # << "s", "c", "h", "e", "m", "a", "s" >>
       /\ \E x \in Listing : x.is_dir /\ x.name = results[k].toolkit
  /\ ReporterDone =>
       /\ \A k \in DOMAIN Toolkits(results) :
            /\ Toolkits(results)[k] # << "s", "c", "h", "e", "m", "a", "s" >>
            /\ \E x \in Listing : x.is_dir /\ x.name = Toolkits(results)[k]
       /\ \A k \in DOMAIN stdout.comparison :
            Len(stdout.comparison[k].cells) = Len(Toolkits(results))
       /\ \A k \in 2..Len(ReadCsv(WrittenCsv)) :
            /\ ReadCsv(WrittenCsv)[k][2] # << "s", "c", "h", "e", "m", "a", "s" >>
            /\ \E x \in Listing : x.is_dir /\ x.name = ReadCsv(WrittenCsv)[k][2]

\* The reporter has ended well on a root that holds the reserved directory
\* with a response file in it and a file notes.json beside the directories.
C20_Witness ==
  /\ ReporterDone
  /\ \E x \in Listing :
       /\ x.is_dir
       /\ x.name = << "s", "c", "h", "e", "m", "a", "s" >>
       /\ \E y \in x.files : MatchesJson(y.name)
  /\ \E x \in Listing : ~x.is_dir /\ MatchesJson(x.name)
  /\ entry_idx = Cardinality(Listing) + 1
(***************************************************************************)
\* The rows of the results for one scenario.
RowsFor(scenario) == { k \in DOMAIN results : results[k].scenario = scenario }

\* The toolkits that have a result for a scenario, and their token counts.
ToolkitsWith(scenario) == { results[k].toolkit : k \in RowsFor(scenario) }

TokensFor(scenario) == { results[k].tokens : k \in RowsFor(scenario) }

\* C21: in the comparison that has been printed, the row of a scenario has
\* a ratio if and only if at least two toolkits have a result for the
\* scenario and the least of their token counts is above zero; the ratio
\* shown is the greatest count divided by the least, to one decimal place
\* (within half a tenth of the quotient); counts of which one is four
\* times the other show 4.0.
C21_RatioIsMaxOverMin ==
  \A k \in DOMAIN stdout.comparison :
    LET row    == stdout.comparison[k]
        counts == TokensFor(row.scenario)
        max_t  == CHOOSE x \in counts : \A y \in counts : y <= x
        min_t  == CHOOSE x \in counts : \A y \in counts : x <= y
    IN  /\ row.ratio # None <=>
             Cardinality(ToolkitsWith(row.scenario)) >= 2 /\ min_t > 0
        /\ row.ratio # None =>
             /\ 2 * (row.ratio[1] * min_t - 10 * max_t) <= min_t
             /\ 2 * (10 * max_t - row.ratio[1] * min_t) <= min_t
             /\ max_t = 4 * min_t => row.ratio[1] = 40

\* The comparison has been printed with a scenario of two toolkits whose
\* counts are 8 and 2 and whose ratio shows 4.0, and a scenario of one
\* toolkit without a ratio.
C21_Witness ==
  /\ \E k \in DOMAIN stdout.comparison :
       /\ TokensFor(stdout.comparison[k].scenario) = {2, 8}
       /\ stdout.comparison[k].ratio = Some(40)
  /\ \E k \in DOMAIN stdout.comparison :
       /\ Cardinality(ToolkitsWith(stdout.comparison[k].scenario)) = 1
       /\ stdout.comparison[k].ratio = None
(***************************************************************************)
\* The sequence of names is strictly ascending in code point order.
Ascending(names) ==
  \A k \in DOMAIN names : k < Len(names) => LexLess(names[k], names[k + 1])

\* The rows of the results with a scenario and a toolkit.
RowsAt(scenario, toolkit) ==
  { k \in RowsFor(scenario) : results[k].toolkit = toolkit }

\* The comparison has one row per scenario of the results and one column
\* per toolkit of the results, both ascending.
ComparisonLayout ==
  /\ { stdout.comparison[k].scenario : k \in DOMAIN stdout.comparison }
       = { results[k].scenario : k \in DOMAIN results }
  /\ Ascending([k \in DOMAIN stdout.comparison |-> stdout.comparison[k].scenario])
  /\ { stdout.columns[k] : k \in DOMAIN stdout.columns }
       = { results[k].toolkit : k \in DOMAIN results }
  /\ Ascending(stdout.columns)
  /\ \A k \in DOMAIN stdout.comparison :
       Len(stdout.comparison[k].cells) = Len(stdout.columns)

\* C22 as stated: once the comparison is printed it has one row per
\* distinct scenario and one column per distinct toolkit, both in ascending
\* order, and each cell holds the token count of the one and only result
\* with that scenario and toolkit, or the placeholder when there is none.
C22_CellIsTheUniqueResult ==
  reporter_pc \in {"export", "exited"} /\ stdout.comparison # << >> =>
    /\ ComparisonLayout
    /\ \A k \in DOMAIN stdout.comparison, t \in DOMAIN stdout.columns :
         LET rows == RowsAt(stdout.comparison[k].scenario, stdout.columns[t])
             cell == stdout.comparison[k].cells[t]
         IN  /\ Cardinality(rows) <= 1
             /\ rows = { } => cell = None
             /\ \A n \in rows : cell = Some(results[n].tokens)

\* C22, amended: once the comparison is printed it has one row per distinct
\* scenario and one column per distinct toolkit, both in ascending order,
\* and each cell holds the token count of the first result, in the order of
\* the results, with that scenario and toolkit, or the placeholder when
\* there is none.
C22_CellIsTheFirstResult ==
  reporter_pc \in {"export", "exited"} /\ stdout.comparison # << >> =>
    /\ ComparisonLayout
    /\ \A k \in DOMAIN stdout.comparison, t \in DOMAIN stdout.columns :
         LET rows == RowsAt(stdout.comparison[k].scenario, stdout.columns[t])
             cell == stdout.comparison[k].cells[t]
         IN  /\ rows = { } => cell = None
             /\ rows # { } =>
                  cell = Some(results[CHOOSE n \in rows :
                                        \A n2 \in rows : n <= n2].tokens)

\* The comparison is printed for results of which two have the same
\* scenario and toolkit and different token counts, the first of them 8.
C22_Witness ==
  /\ reporter_pc \in {"export", "exited"}
  /\ \E k \in DOMAIN stdout.comparison, t \in DOMAIN stdout.columns :
       /\ Cardinality(RowsAt(stdout.comparison[k].scenario, stdout.columns[t])) = 2
       /\ { results[n].tokens :
              n \in RowsAt(stdout.comparison[k].scenario, stdout.columns[t]) }
            = {1, 8}
       /\ stdout.comparison[k].cells[t] = Some(8)
(***************************************************************************)
\* Neither data/raw nor raw exists.
RootMissing == tree.data_raw = None /\ tree.raw = None

\* Nothing has been printed but a diagnostic, and the CSV files are as they
\* were before the run.
OnlyDiagnostic(message) ==
  /\ stdout.error = message
  /\ stdout.table = << >>
  /\ stdout.columns = << >>
  /\ stdout.comparison = << >>
  /\ stdout.csv_path = ""
  /\ csv_files \in CsvBefore

\* C23: when neither data/raw nor raw exists, or the directory holds no
\* response file, the reporter never reaches the report or the export, and
\* when it has exited its status is not zero, it has printed a diagnostic
\* and no table, and the CSV files are as they were: none created, none
\* overwritten.
C23_FatalWithoutOutput ==
  /\ RootMissing =>
       /\ reporter_pc \in {"start", "exited"}
       /\ reporter_pc = "exited" =>
            /\ reporter_exit # 0
            /\ OnlyDiagnostic("No raw data directory found")
  /\ ~RootMissing /\ data_dir # "" /\ ScanOrder = << >> =>
       /\ reporter_pc \in {"scan", "exited"}
       /\ results = << >>
       /\ reporter_pc = "exited" =>
            /\ reporter_exit # 0
            /\ OnlyDiagnostic("No JSON files found")

\* The reporter has exited on a root that holds only the reserved directory
\* and a plain file, where a CSV of an earlier run was: the CSV is still
\* the earlier one.
C23_Witness ==
  /\ reporter_pc = "exited"
  /\ reporter_exit = 1
  /\ stdout.error = "No JSON files found"
  /\ Listing # { }
  /\ csv_files[CsvPath] = Some(StaleCsv)
(***************************************************************************)
\* C24: every row has the token count and the UTF-8 length of the text of
\* its own file, the stem of the file's name and the name of its directory,
\* whether or not the text is JSON of a shape the reporter measures (the
\* five bytes of {oops count as 5 bytes and 2 tokens, a text of 8
\* characters of which one takes two bytes as 9 bytes); a text that is not
\* measured has zeros for records and fields only; and each row depends on
\* its own file alone: it is the row that file gives with any neighbours.
C24_SizesIndependentOfParsing ==
  \A k \in DOMAIN results :
    LET src  == SourceOf(results[k])
        text == src.file.doc.text
    IN  /\ results[k].tokens = count_tokens(text)
        /\ results[k].bytes = Utf8Len(text)
        /\ results[k].scenario = Stem(src.file.name)
        /\ results[k].toolkit = src.toolkit
        /\ text = "{oops" => results[k].bytes = 5 /\ results[k].tokens = 2
        /\ text = "[\"café\"]" => results[k].bytes = 9
        /\ Mismatch(json_loads(text)) =>
             results[k].records = 0 /\ results[k].fields_per_record = 0
        /\ ~Mismatch(json_loads(text)) =>
             /\ results[k].records = shape_counts(text).records
             /\ results[k].fields_per_record = shape_counts(text).fields

\* A text that is not JSON has been scanned between two texts that are: it
\* has its bytes and tokens and zeros for records, and the rows before and
\* after it have their records.
C24_Witness ==
  \E k \in DOMAIN results :
    /\ k > 1
    /\ k < Len(results)
    /\ json_loads(SourceOf(results[k]).file.doc.text).error
    /\ results[k].bytes = 5
    /\ results[k].tokens = 2
    /\ results[k].records = 0
    /\ results[k - 1].records = 2
    /\ results[k + 1].records = 2
(***************************************************************************)
\* The company phase is over: control is in a later phase, or main() has
\* returned.
CompaniesDone ==
  \/ pc \in {"people", "deals", "deal_stage", "save"}
  \/ pc = "exited" /\ exit_code = 0

\* C25: company_records grows by one entry per company, in the order of
\* COMPANIES: during the company phase it has one entry for each company
\* already attempted, and from the end of that phase on one per entry of
\* COMPANIES.  Entry k is None exactly when the upsert of company k did not
\* come back with a record, and otherwise holds the identifier that upsert
\* returned, the name of company k and idx = k - 1 (the 0-based position).
\* So the lookups of the people phase (company_records[i]) and of the deal
\* phase (company_records[company_idx]) are in range, and what they find is
\* None or the record of the company at that position.
C25_CompanyRecordsAlignWithCompanies ==
  /\ pc = "companies" => Len(company_records) = i - 1
  /\ CompaniesDone => Len(company_records) = Len(Companies)
  /\ \A k \in DOMAIN company_records :
       /\ k <= Len(Companies)
       /\ company_records[k] = None <=> k \notin ReturnedItems("company")
       /\ company_records[k] # None =>
            /\ company_records[k][1].idx = k - 1
            /\ company_records[k][1].name = Companies[k].name
            /\ company_records[k][1].record_id = ReturnedId("company", k)
  /\ pc = "people" => i \in DOMAIN company_records
  /\ pc \in {"deals", "deal_stage"} =>
       /\ Deals[i].company_idx + 1 \in DOMAIN company_records
       /\ LET r == company_records[Deals[i].company_idx + 1]
          IN  r # None => r[1].name = Companies[Deals[i].company_idx + 1].name

\* The deal phase is about to look up a company whose upsert failed, in a
\* list that has all its entries and a record after the failed one.
C25_Witness ==
  /\ pc = "deals"
  /\ Len(company_records) = Len(Companies)
  /\ company_records[Deals[i].company_idx + 1] = None
  /\ \E k \in DOMAIN company_records :
       /\ k > Deals[i].company_idx + 1
       /\ company_records[k] # None
       /\ company_records[k][1].idx = k - 1
(***************************************************************************)
\* The person upserts made so far, as <<company, executive>> positions.
PersonCalls == { << k[2], k[3] >> : k \in Called({"person"}) }

\* The people phase is over.
PeopleDone ==
  \/ pc \in {"deals", "deal_stage", "save"}
  \/ pc = "exited" /\ exit_code = 0

\* C26: a person upsert is made only for a company whose upsert came back
\* with a record in this run, and once; the upsert just made for executive
\* e of company k has that executive's e-mail address and, as its company
\* reference, the identifier the upsert of company k returned; and once the
\* people phase is over there have been exactly two person upserts for each
\* company that was upserted successfully, whatever the person upserts
\* themselves returned.
C26_PeopleOnlyForCreatedCompanies ==
  /\ \A key \in Called({"person"}) :
       /\ key[2] \in ReturnedItems("company")
       /\ CopiesIn(key, calls) = 1
  /\ last.key[1] = "person" =>
       /\ last.req.company = ReturnedId("company", last.key[2])
       /\ last.req.company = company_records[last.key[2]][1].record_id
       /\ last.req.match = Execs(Companies[last.key[2]])[last.key[3]]
  /\ PeopleDone =>
       /\ PersonCalls = ReturnedItems("company") \X {1, 2}
       /\ Cardinality(PersonCalls) = 2 * Cardinality(ReturnedItems("company"))

\* The people phase has just ended with the second executive of the last
\* company, after a run in which the upsert of one company failed: 98
\* person upserts have been made, none for that company.
C26_Witness ==
  /\ pc = "deals"
  /\ last.key = Key("person", Len(Companies), 2)
  /\ last.req.company = IdFor(Key("company", Len(Companies), 0))
  /\ \E k \in DOMAIN company_records :
       /\ company_records[k] = None
       /\ << k, 1 >> \notin PersonCalls
       /\ << k + 1, 1 >> \in PersonCalls
  /\ Cardinality(PersonCalls) = 98
(***************************************************************************)
\* C27 as stated: the deal-creation call just made carries a company
\* reference, and the reference is the identifier that the upsert of a
\* company returned in this run.  (When the entry of the deal's company is
\* None, create_deals leaves associated_company out of the payload and
\* creates the deal all the same.)
C27_EveryDealCallCarriesCompany ==
  last.key[1] = "deal" =>
    /\ last.req.company # 0
    /\ \E k \in ReturnedItems("company") :
         last.req.company = ReturnedId("company", k)
(***************************************************************************)
\* The stage update just made did not succeed.
StageUpdateFailed == last.key[1] = "stage" /\ last.status \notin {200, 201}

\* C28: the process is at the point of sending a stage update only when the
\* call it made last is the creation of the same deal and that call came
\* back with a record; the update it is about to send, and the one it has
\* just sent, is a PATCH to the record identifier that creation returned,
\* with the deal's stage; a stage update is made once, and only for a deal
\* whose creation returned a record.  What the update returns changes
\* nothing: the deal keeps its entry in deal_records with its intended
\* stage, the run goes on, and the mapping file lists every deal whose
\* creation returned a record, with the stage from DEALS.
C28_StageUpdateFollowsCreation ==
  /\ pc = "deal_stage" =>
       /\ last.key = Key("deal", i, 0)
       /\ last.status \in {200, 201}
       /\ i \in ReturnedItems("deal")
       /\ PendingRequest
            = StageRequest(ReturnedId("deal", i), Deals[i].stage)
  /\ \A key \in Called({"stage"}) :
       /\ key[2] \in ReturnedItems("deal")
       /\ CopiesIn(key, calls) = 1
  /\ last.key[1] = "stage" =>
       /\ last.req.method = "PATCH"
       /\ last.req.target = ReturnedId("deal", last.key[2])
       /\ last.req.match = Deals[last.key[2]].stage
       /\ deal_records[last.key[2]]
            = Some([record_id |-> ReturnedId("deal", last.key[2]),
                    name |-> Deals[last.key[2]].name,
                    stage |-> Deals[last.key[2]].stage])
       /\ pc \in {"deals", "save"} \/ Finished
  /\ Finished =>
       \A k \in ReturnedItems("deal") :
         /\ Key("stage", k, 0) \in Called({"stage"})
         /\ \E j \in DOMAIN mapping.deals :
              mapping.deals[j] = [record_id |-> ReturnedId("deal", k),
                                  name |-> Deals[k].name,
                                  stage |-> Deals[k].stage]

\* The stage update of the last deal failed and main() has returned: the
\* mapping file lists the deal with its stage.
C28_Witness ==
  /\ Finished
  /\ StageUpdateFailed
  /\ last.key = Key("stage", Len(Deals), 0)
  /\ mapping.deals[Len(mapping.deals)].name = Deals[Len(Deals)].name
  /\ mapping.deals[Len(mapping.deals)].stage = Deals[Len(Deals)].stage
  /\ mapping.total_deals = Len(Deals)
(***************************************************************************)
\* For each entry of DEALS, in order, the 0-based position in COMPANIES of
\* the company its name begins with: the only company whose name contains
\* the part of the deal's name before " - ", or, for the three deals named
\* by an abbreviation (AMD, IBM, P&G), the company with the domain amd.com,
\* ibm.com, pg.com.
NamedAfter ==
  << 0, 1, 23, 29, 45, 2, 10, 24, 38, 40,
     30, 18, 5, 28, 31, 46, 13, 39, 42, 12,
     33, 15, 11, 14, 32, 49, 25, 37, 27, 36,
     43, 19, 35, 47, 20, 22, 48, 26, 41, 44,
     3, 4, 8, 34, 6, 7, 9, 21, 16, 17 >>

\* The entries of DEALS that reference the company at 0-based position c.
DealsOfCompany(c) == { k \in DOMAIN Deals : Deals[k].company_idx = c }

\* C29 as stated: in the bundled data every company_idx is a position of
\* COMPANIES, it is the position of the company the deal is named after,
\* and no two deals have the same company_idx, so that every company is
\* referenced by exactly one deal.  (The positions are all valid; ten deals
\* reference another company than the one in their name, position 39 is
\* referenced twice and position 35 never.)
C29_DealsReferenceTheirOwnCompany ==
  dataset = "bundled" =>
    /\ \A k \in DOMAIN Deals :
         Deals[k].company_idx \in 0..(Len(Companies) - 1)
    /\ \A k \in DOMAIN Deals : Deals[k].company_idx = NamedAfter[k]
    /\ \A k1, k2 \in DOMAIN Deals :
         k1 # k2 => Deals[k1].company_idx # Deals[k2].company_idx
    /\ \A c \in 0..(Len(Companies) - 1) : Cardinality(DealsOfCompany(c)) = 1
(***************************************************************************)
\* The process has got past the validation: it is at the connectivity
\* check or further, or has exited after it.
PastValidation ==
  /\ pc \notin {"load", "validate"}
  /\ pc = "exited" => calls # EmptyBag \/ exit_code = 0

\* One deal has a greater value than every other.
SingleHighest(deals) ==
  Cardinality({ k \in DOMAIN deals : deals[k].value = highest(deals).value }) = 1

\* C30 as stated: a process gets past the validation only when its data
\* meets all eight coverage conditions: the seven thresholds, and a single
\* highest-value deal.  (The eighth entry of the list of checks is the
\* constant True, so data in which two deals share the highest value is
\* validated and seeded.)
C30_EightChecksCanAbort ==
  PastValidation =>
    /\ \A n \in 1..7 : CHECKS[dataset][n]
    /\ SingleHighest(Deals)
====
